---- MODULE Spec2Model ----
(***************************************************************************)
(* Model of the client-side filter / search / sort controllers of the      *)
(* type-foundry site:                                                      *)
(*   - FilterSystem, TypefaceFilter, ProjectFilter   (src/js/filters.js)   *)
(*   - FiltersManager                                (src/unnamed/part_000)*)
(*                                                                         *)
(* JavaScript strings are sequences of one-character strings, JavaScript   *)
(* values are tagged records (see the value constructors), catalogue       *)
(* records are records of such values, read with Field.                    *)
(***************************************************************************)
EXTENDS Integers, Sequences, FiniteSets, TLC

(***************************************************************************)
(* Strings                                                                 *)
(***************************************************************************)

\* The position of each character of a list of distinct characters
IndexIn(chars) ==
  [c \in { chars[i] : i \in DOMAIN chars } |->
     CHOOSE i \in DOMAIN chars : chars[i] = c]

\* The code unit of a character, as its rank among the characters in
\* code-unit order (the order String comparison uses)
OrdOf ==
  IndexIn(<< " ", "$", "+", ",", "-",
     "0", "1", "2", "3", "4", "5", "6", "7", "8", "9", ":",
     "A", "B", "C", "D", "E", "F", "G", "H", "I", "J", "K", "L", "M",
     "N", "O", "P", "Q", "R", "S", "T", "U", "V", "W", "X", "Y", "Z",
     "a", "b", "c", "d", "e", "f", "g", "h", "i", "j", "k", "l", "m",
     "n", "o", "p", "q", "r", "s", "t", "u", "v", "w", "x", "y", "z" >>)

Ord(c) == OrdOf[c]

\* String.prototype.toLowerCase, on one character
LowerChar(c) ==
  CASE c = "A" -> "a" [] c = "B" -> "b" [] c = "C" -> "c" [] c = "D" -> "d"
    [] c = "E" -> "e" [] c = "F" -> "f" [] c = "G" -> "g" [] c = "H" -> "h"
    [] c = "I" -> "i" [] c = "J" -> "j" [] c = "K" -> "k" [] c = "L" -> "l"
    [] c = "M" -> "m" [] c = "N" -> "n" [] c = "O" -> "o" [] c = "P" -> "p"
    [] c = "Q" -> "q" [] c = "R" -> "r" [] c = "S" -> "s" [] c = "T" -> "t"
    [] c = "U" -> "u" [] c = "V" -> "v" [] c = "W" -> "w" [] c = "X" -> "x"
    [] c = "Y" -> "y" [] c = "Z" -> "z" [] OTHER -> c

\* String.prototype.toLowerCase
ToLowerCase(s) == [i \in 1..Len(s) |-> LowerChar(s[i])]

\* String.prototype.trim (the only white space of the model is " ")
RECURSIVE TrimStart(_)
TrimStart(s) ==
  IF Len(s) > 0 /\ s[1] = " " THEN TrimStart(Tail(s)) ELSE s

RECURSIVE TrimEnd(_)
TrimEnd(s) ==
  IF Len(s) > 0 /\ s[Len(s)] = " " THEN TrimEnd(SubSeq(s, 1, Len(s) - 1)) ELSE s

Trim(s) == TrimEnd(TrimStart(s))

\* String.prototype.includes
Includes(hay, needle) ==
  \E i \in 0..(Len(hay) - Len(needle)) :
    SubSeq(hay, i + 1, i + Len(needle)) = needle

\* Array.prototype.includes on an array of strings
ArrIncludes(arr, s) == \E i \in 1..Len(arr) : arr[i] = s

\* a < b on two strings (code-unit lexicographic order)
RECURSIVE StrLess(_, _)
StrLess(a, b) ==
  IF Len(b) = 0 THEN FALSE
  ELSE IF Len(a) = 0 THEN TRUE
  ELSE IF a[1] = b[1] THEN StrLess(Tail(a), Tail(b))
  ELSE Ord(a[1]) < Ord(b[1])

\* String.prototype.split(sep) for a one-character separator
RECURSIVE SplitFrom(_, _, _)
SplitFrom(s, sep, cur) ==
  IF Len(s) = 0 THEN << cur >>
  ELSE IF s[1] = sep THEN << cur >> \o SplitFrom(Tail(s), sep, << >>)
  ELSE SplitFrom(Tail(s), sep, Append(cur, s[1]))

Split(s, sep) == SplitFrom(s, sep, << >>)

\* Array.prototype.join(sep)
RECURSIVE Join(_, _)
Join(arr, sep) ==
  IF Len(arr) = 0 THEN << >>
  ELSE IF Len(arr) = 1 THEN arr[1]
  ELSE arr[1] \o << sep >> \o Join(Tail(arr), sep)

\* String.prototype.replace(ch, '') : removes the first occurrence of ch
RECURSIVE RemoveFirst(_, _)
RemoveFirst(s, ch) ==
  IF Len(s) = 0 THEN s
  ELSE IF s[1] = ch THEN Tail(s)
  ELSE << s[1] >> \o RemoveFirst(Tail(s), ch)

IsDigit(c) == c \in { "0", "1", "2", "3", "4", "5", "6", "7", "8", "9" }
DigitVal(c) ==
  CHOOSE d \in 0..9 : << "0", "1", "2", "3", "4", "5", "6", "7", "8", "9" >>[d + 1] = c

(***************************************************************************)
(* JavaScript values                                                       *)
(***************************************************************************)

VUndef   == [t |-> "undefined", s |-> << >>, n |-> 0, a |-> << >>]
VNaN     == [t |-> "NaN",       s |-> << >>, n |-> 0, a |-> << >>]
VStr(x)  == [t |-> "string",    s |-> x,     n |-> 0, a |-> << >>]
VNum(x)  == [t |-> "number",    s |-> << >>, n |-> x, a |-> << >>]
VBool(b) == [t |-> "boolean",   s |-> << >>, n |-> IF b THEN 1 ELSE 0, a |-> << >>]
\* an array of strings
VArr(x)  == [t |-> "array",     s |-> << >>, n |-> 0, a |-> x]
\* a plain object; a holds its own keys (as strings)
VObj(ks) == [t |-> "object",    s |-> << >>, n |-> 0, a |-> ks]

\* ToBoolean
Truthy(v) ==
  CASE v.t = "undefined" -> FALSE
    [] v.t = "NaN"       -> FALSE
    [] v.t = "string"    -> Len(v.s) > 0
    [] v.t = "number"    -> v.n # 0
    [] v.t = "boolean"   -> v.n = 1
    [] OTHER             -> TRUE

\* a || b
Or(a, b) == IF Truthy(a) THEN a ELSE b

\* parseInt on the rest s of a string: white space, a sign, then the leading
\* run of digits (sign: 0 while none was read)
RECURSIVE ParseIntFrom(_, _, _, _)
ParseIntFrom(s, acc, seen, sign) ==
  IF Len(s) > 0 /\ IsDigit(s[1])
    THEN ParseIntFrom(Tail(s), acc * 10 + DigitVal(s[1]), TRUE,
                      IF sign = 0 THEN 1 ELSE sign)
  ELSE IF Len(s) > 0 /\ ~seen /\ sign = 0 /\ s[1] = " "
    THEN ParseIntFrom(Tail(s), 0, FALSE, 0)
  ELSE IF Len(s) > 0 /\ ~seen /\ sign = 0 /\ s[1] \in { "-", "+" }
    THEN ParseIntFrom(Tail(s), 0, FALSE, IF s[1] = "-" THEN -1 ELSE 1)
  ELSE IF seen THEN VNum(sign * acc)
  ELSE VNaN

\* parseInt(v): a number (integers only in the model) or NaN
ParseInt(v) ==
  CASE v.t = "number" -> v
    [] v.t = "string" -> ParseIntFrom(v.s, 0, FALSE, 0)
    [] OTHER -> VNaN

\* The number a string of digits only spells (0 for the empty string), NaN
\* for any other string
RECURSIVE DigitsValue(_, _)
DigitsValue(s, acc) ==
  IF Len(s) = 0 THEN VNum(acc)
  ELSE IF IsDigit(s[1]) THEN DigitsValue(Tail(s), acc * 10 + DigitVal(s[1]))
  ELSE VNaN

\* ToNumber, for the relational operators on mixed operands
ToNumber(v) ==
  CASE v.t = "number"  -> v
    [] v.t = "boolean" -> VNum(v.n)
    [] v.t = "string"  -> DigitsValue(Trim(v.s), 0)
    [] OTHER -> VNaN

\* x rel y on two numbers (false when either is NaN)
NumCompare(x, rel, y) ==
  /\ x.t = "number"
  /\ y.t = "number"
  /\ CASE rel = "<"  -> x.n < y.n
       [] rel = "<=" -> x.n <= y.n
       [] rel = ">=" -> x.n >= y.n

\* a < b (Abstract Relational Comparison)
JsLess(a, b) ==
  IF a.t = "string" /\ b.t = "string" THEN StrLess(a.s, b.s)
  ELSE NumCompare(ToNumber(a), "<", ToNumber(b))

\* v <= k, v >= k against a number literal
JsLeqNum(v, k) == NumCompare(ToNumber(v), "<=", VNum(k))
JsGeqNum(v, k) == NumCompare(ToNumber(v), ">=", VNum(k))

\* a === s for a string s
StrictEqStr(v, s) == v.t = "string" /\ v.s = s

\* a === n for a number (or NaN) n
StrictEqNum(v, num) == v.t = "number" /\ num.t = "number" /\ v.n = num.n

(***************************************************************************)
(* Catalogue records.  The JSON collections are not part of the sources;   *)
(* the records below carry the fields the controllers read, with missing   *)
(* fields, a title-only record, string-typed numbers and an object-valued  *)
(* description among them.                                                 *)
(***************************************************************************)

\* The property names a sort key may spell
Spell ==
  << "t", "i", "t", "l", "e" >> :> "title"
  @@ << "t", "y", "p", "e" >> :> "type"
  @@ << "c", "a", "t", "e", "g", "o", "r", "y" >> :> "category"
  @@ << "y", "e", "a", "r" >> :> "year"

\* The property name a JavaScript string spells ("?" : no record has it).
Intern(s) == IF s \in DOMAIN Spell THEN Spell[s] ELSE "?"

\* Records 1..3 are typefaces, 4..5 projects; description_short stands for
\* description.short
Items ==
  << [ name        |-> VStr(<< "A", "b" >>),
       type        |-> VStr(<< "s", "e", "r", "i", "f" >>),
       styles      |-> VNum(3),
       category    |-> VStr(<< "t", "e", "x", "t" >>),
       description |-> VStr(<< "b", "a" >>),
       price       |-> VStr(<< "$", "4", "0" >>),
       features    |-> VArr(<< << "l", "i", "g", "a" >> >>) ],
     [ name              |-> VStr(<< "b" >>),
       type              |-> VStr(<< "s", "a", "n", "s", "-", "s", "e", "r", "i", "f" >>),
       styles            |-> VStr(<< "1" >>),
       category          |-> VStr(<< "d", "i", "s", "p", "l", "a", "y" >>),
       description       |-> VObj(<< << "s", "h", "o", "r", "t" >> >>),
       description_short |-> VStr(<< "x" >>),
       variableAxes      |-> VObj(<< << "w", "g", "h", "t" >> >>) ],
     [ title       |-> VStr(<< "a", "B" >>),
       nameDisplay |-> VStr(<< "a", "B" >>),
       type        |-> VStr(<< "s", "e", "r", "i", "f" >>),
       styles      |-> VNum(12),
       price       |-> VStr(<< "$", "1", "2", "0" >>) ],
     [ name        |-> VStr(<< "P", "a" >>),
       category    |-> VStr(<< "b", "r", "a", "n", "d", "i", "n", "g" >>),
       year        |-> VNum(2023),
       featured    |-> VBool(TRUE),
       description |-> VStr(<< "x" >>) ],
     [ name        |-> VStr(<< "a", "b" >>),
       category    |-> VStr(<< "w", "e", "b" >>),
       year        |-> VStr(<< "2", "0", "1", "9" >>) ] >>

\* item[field]
Field(item, f) == IF f \in DOMAIN item THEN item[f] ELSE VUndef

\* The collections the data files may hold, by name.
Collection(c) ==
  CASE c = "typefaces" -> SubSeq(Items, 1, 3)
    [] c = "projects"  -> SubSeq(Items, 4, 5)
    [] OTHER           -> << >>

(***************************************************************************)
(* Array helpers                                                           *)
(***************************************************************************)

\* t with x put at position p
InsertAt(t, x, p) == SubSeq(t, 1, p - 1) \o << x >> \o SubSeq(t, p, Len(t))

\* Array.prototype.sort with comparator Cmp: stable, each element placed
\* before the first element that compares greater than it.
InsertByCmp(t, x, Cmp(_, _)) ==
  InsertAt(t, x,
    CHOOSE p \in 1..(Len(t) + 1) :
      /\ p = Len(t) + 1 \/ Cmp(t[p], x) > 0
      /\ \A j \in 1..(p - 1) : Cmp(t[j], x) <= 0)

StableSort(s, Cmp(_, _)) ==
  LET sorted[n \in 0..Len(s)] ==
        IF n = 0 THEN << >> ELSE InsertByCmp(sorted[n - 1], s[n], Cmp)
  IN sorted[Len(s)]

\* The elements of a sequence, as a set
Elems(s) == { s[i] : i \in 1..Len(s) }

\* Outcome of evaluating a predicate that may throw: "T", "F", or "X" (threw)
B(b) == IF b THEN "T" ELSE "F"

\* Array.prototype.some over outcomes evaluated in order: the first outcome
\* that is true or throws decides
RECURSIVE Some(_)
Some(rs) ==
  IF Len(rs) = 0 THEN "F"
  ELSE IF rs[1] = "F" THEN Some(Tail(rs))
  ELSE rs[1]

\* Array.prototype.filter with a predicate that may throw; res[x] is the
\* outcome for element x.  The call throws when any element's test throws.
FilterMayThrow(s, res, tag) ==
  IF \E i \in 1..Len(s) : res[s[i]] = "X"
    THEN [error |-> tag, list |-> << >>]
    ELSE [error |-> "none", list |-> SelectSeq(s, LAMBDA x : res[x] = "T")]

(***************************************************************************)
(* FilterSystem, TypefaceFilter, ProjectFilter        (src/js/filters.js)  *)
(***************************************************************************)

VARIABLES
  controller,       \* the class of the controller the page constructs
  fsData,           \* FilterSystem.data
  fsActiveFilters,  \* FilterSystem.activeFilters, entries in insertion order
  fsSearchQuery,    \* FilterSystem.searchQuery
  fsSortBy,         \* FilterSystem.sortBy
  fsSortOrder,      \* FilterSystem.sortOrder
  fsRendered,       \* the list last handed to callbacks.onRender
  fsError           \* "none", or the TypeError the last call ended with

fsVars == << fsData, fsActiveFilters, fsSearchQuery, fsSortBy, fsSortOrder,
             fsRendered, fsError >>

FSClasses == { "FilterSystem", "TypefaceFilter", "ProjectFilter" }

\* An activeFilters entry: a single selection (a string) or a multiple
\* selection (an array of strings)
StrEntry(key, s) == [key |-> key, isArr |-> FALSE, str |-> s, arr |-> << >>]
ArrEntry(key, a) == [key |-> key, isArr |-> TRUE, str |-> << >>, arr |-> a]

\* position of activeFilters[key], 0 when the object has no such key
FsIndex(af, key) ==
  IF \E i \in 1..Len(af) : af[i].key = key
    THEN CHOOSE i \in 1..Len(af) : af[i].key = key
    ELSE 0

\* delete activeFilters[key]
FsDelete(af, key) == SelectSeq(af, LAMBDA e : e.key # key)

\* activeFilters[key] = entry
FsPut(af, entry) ==
  IF FsIndex(af, entry.key) = 0 THEN Append(af, entry)
  ELSE [af EXCEPT ![FsIndex(af, entry.key)] = entry]

\* parseInt(item.price.replace('$', '')); replace is no function of a price
\* that is not a string
FsPriceOf(item) ==
  IF Field(item, "price").t # "string"
    THEN [error |-> "TypeError:replace", v |-> VUndef]
    ELSE [error |-> "none",
          v |-> ParseInt(VStr(RemoveFirst(Field(item, "price").s, "$")))]

\* The price case of matchesFilter, p being the outcome of FsPriceOf
FsPriceMatches(p, filterValue) ==
  IF p.error # "none" THEN "X"
  ELSE IF filterValue = << "0", "-", "5", "0" >> THEN B(JsLeqNum(p.v, 50))
  ELSE IF filterValue = << "5", "1", "-", "1", "0", "0" >>
    THEN B(JsGeqNum(p.v, 51) /\ JsLeqNum(p.v, 100))
  ELSE IF filterValue = << "1", "0", "1", "+" >> THEN B(JsGeqNum(p.v, 101))
  ELSE "F"

\* value && value.includes(filterValue) for an array or string field
FsFieldIncludes(value, filterValue) ==
  IF ~Truthy(value) THEN "F"
  ELSE IF value.t = "array" THEN B(ArrIncludes(value.a, filterValue))
  ELSE IF value.t = "string" THEN B(Includes(value.s, filterValue))
  ELSE "X"

\* FilterSystem.matchesFilter
FsBaseMatchesFilter(item, filterType, filterValue) ==
  CASE filterType = "type" ->
         B(StrictEqStr(Field(item, "type"), filterValue))
    [] filterType = "styles" ->
         IF filterValue = << "1", "-", "5" >>
           THEN B(JsLeqNum(Field(item, "styles"), 5))
         ELSE IF filterValue = << "6", "-", "1", "0" >>
           THEN B(JsGeqNum(Field(item, "styles"), 6)
                  /\ JsLeqNum(Field(item, "styles"), 10))
         ELSE IF filterValue = << "1", "1", "+" >>
           THEN B(JsGeqNum(Field(item, "styles"), 11))
         ELSE B(StrictEqNum(Field(item, "styles"), ParseInt(VStr(filterValue))))
    [] filterType = "status" ->
         B(StrictEqStr(Field(item, "status"), filterValue))
    [] filterType = "external" ->
         B(Field(item, "isExternal").t = "boolean"
           /\ ((Field(item, "isExternal").n = 1)
               <=> (filterValue = << "t", "r", "u", "e" >>)))
    [] filterType = "price" -> FsPriceMatches(FsPriceOf(item), filterValue)
    [] filterType = "features" ->
         FsFieldIncludes(Field(item, "features"), filterValue)
    [] filterType = "languages" ->
         FsFieldIncludes(Field(item, "languages"), filterValue)
    [] OTHER ->
         B(StrictEqStr(Field(item, filterType), filterValue))

\* matchesFilter as the controller's class defines it
\* (TypefaceFilter.matchesFilter, ProjectFilter.matchesFilter override it)
FsMatchesFilter(cls, item, filterType, filterValue) ==
  IF cls = "TypefaceFilter" /\ filterType = "variableAxes"
    THEN IF ~Truthy(Field(item, "variableAxes")) THEN "F"
         ELSE B(Field(item, "variableAxes").t = "object"
                /\ ArrIncludes(Field(item, "variableAxes").a, filterValue))
  ELSE IF cls = "ProjectFilter" /\ filterType = "fonts"
    THEN FsFieldIncludes(Field(item, "fonts"), filterValue)
  ELSE IF cls = "ProjectFilter" /\ filterType = "category"
    THEN B(StrictEqStr(Field(item, "category"), filterValue))
  ELSE FsBaseMatchesFilter(item, filterType, filterValue)

\* One field's test in the search step of getFilteredData, value = item[field]
FsSearchField(value, query) ==
  IF value.t = "array"
    THEN B(\E i \in 1..Len(value.a) : Includes(ToLowerCase(value.a[i]), query))
  ELSE IF ~Truthy(value) THEN "F"
  ELSE IF value.t = "string" THEN B(Includes(ToLowerCase(value.s), query))
  ELSE "X"

FsSearchFields == << "name", "nameDisplay", "description", "features" >>

\* searchFields.some(...) for one item
FsSearchItem(item, query) ==
  Some([i \in 1..Len(FsSearchFields) |->
          FsSearchField(Field(item, FsSearchFields[i]), query)])

\* The values of an activeFilters entry: those of the array, or the single one
FsEntryValues(e) == IF e.isArr THEN e.arr ELSE << e.str >>

\* The test one activeFilters entry applies to one item: some value of a
\* multiple selection matches, or the single selection does
FsEntryMatches(cls, item, e) ==
  Some([i \in 1..Len(FsEntryValues(e)) |->
          FsMatchesFilter(cls, item, e.key, FsEntryValues(e)[i])])

\* The search step of getFilteredData, on r = [error, list]
FsSearchStep(r, query) ==
  IF r.error # "none" \/ Len(query) = 0 THEN r
  ELSE FilterMayThrow(r.list, [x \in Elems(r.list) |-> FsSearchItem(x, query)],
                      "TypeError:toLowerCase")

\* Object.entries(activeFilters).forEach(... filteredData.filter ...)
RECURSIVE FsApplyEntries(_, _, _)
FsApplyEntries(cls, r, af) ==
  IF r.error # "none" \/ Len(af) = 0 THEN r
  ELSE FsApplyEntries(cls,
         FilterMayThrow(r.list,
           [x \in Elems(r.list) |-> FsEntryMatches(cls, x, af[1])],
           "TypeError:matchesFilter"),
         Tail(af))

\* FilterSystem.getSortValue
FsGetSortValue(item, sortBy) ==
  CASE sortBy = << "n", "a", "m", "e" >> ->
         [error |-> "none", v |-> Or(Field(item, "nameDisplay"), Field(item, "name"))]
    [] sortBy = << "p", "r", "i", "c", "e" >> -> FsPriceOf(item)
    [] sortBy = << "s", "t", "y", "l", "e", "s" >> ->
         [error |-> "none", v |-> Field(item, "styles")]
    [] sortBy = << "d", "a", "t", "e" >> ->
         [error |-> "none",
          v |-> Or(Or(Field(item, "releaseDate"), Field(item, "lastUpdated")),
                   VStr(<< "2", "0", "2", "5", "-", "0", "1", "-", "0", "1" >>))]
    [] OTHER ->
         [error |-> "none", v |-> Or(Field(item, Intern(sortBy)), VStr(<< >>))]

\* The comparator of the sort step of getFilteredData, on the two sort values
\* (sortOrder === 'desc' ? -comparison : comparison, as a product)
FsCompare(rawA, rawB, sortOrder) ==
  LET valueA == IF rawA.t = "string" THEN VStr(ToLowerCase(rawA.s)) ELSE rawA
      valueB == IF rawB.t = "string" THEN VStr(ToLowerCase(rawB.s)) ELSE rawB
  IN (IF sortOrder = << "d", "e", "s", "c" >> THEN -1 ELSE 1)
     * (IF JsLess(valueA, valueB) THEN -1
        ELSE IF JsLess(valueB, valueA) THEN 1 ELSE 0)

\* The sort step, val[x] being getSortValue(x, sortBy): the comparator runs on
\* every element of a list of two or more, so the sort throws when some
\* element's sort value does
FsSortStep(r, val, sortOrder) ==
  IF r.error # "none" THEN r
  ELSE IF Len(r.list) >= 2
          /\ \E i \in 1..Len(r.list) : val[r.list[i]].error # "none"
    THEN [error |-> "TypeError:getSortValue", list |-> << >>]
  ELSE [error |-> "none",
        list |-> StableSort(r.list,
                   LAMBDA a, b : FsCompare(val[a].v, val[b].v, sortOrder))]

\* FilterSystem.getFilteredData
FsGetFilteredData(st) ==
  FsSortStep(
    FsApplyEntries(st.cls,
      FsSearchStep([error |-> "none", list |-> st.data], st.searchQuery),
      st.activeFilters),
    [x \in Elems(st.data) |-> FsGetSortValue(x, st.sortBy)],
    st.sortOrder)

\* callbacks.onRender(filteredData): an exception of getFilteredData leaves
\* onRender uncalled
FsOnRender(st, r) ==
  IF r.error # "none" THEN [st EXCEPT !.error = r.error]
  ELSE [st EXCEPT !.rendered = r.list, !.renders = @ + 1]

\* FilterSystem.render
FsRender(st) ==
  IF st.error # "none" THEN st ELSE FsOnRender(st, FsGetFilteredData(st))

\* The controller object as a record; renders counts the calls of onRender
\* made by the operation under way
FsState ==
  [ cls           |-> controller,
    data          |-> fsData,
    activeFilters |-> fsActiveFilters,
    searchQuery   |-> fsSearchQuery,
    sortBy        |-> fsSortBy,
    sortOrder     |-> fsSortOrder,
    rendered      |-> fsRendered,
    renders       |-> 0,
    error         |-> fsError ]

\* constructor + init(): defaultSort / defaultOrder per class, then render()
FsNew(cls, data) ==
  FsRender(
    [ cls           |-> cls,
      data          |-> data,
      activeFilters |-> << >>,
      searchQuery   |-> << >>,
      sortBy        |-> IF cls = "ProjectFilter" THEN << "d", "a", "t", "e" >>
                        ELSE << "n", "a", "m", "e" >>,
      sortOrder     |-> IF cls = "ProjectFilter" THEN << "d", "e", "s", "c" >>
                        ELSE << "a", "s", "c" >>,
      rendered      |-> << >>,
      renders       |-> 0,
      error         |-> "none" ])

\* FilterSystem.setData
FsSetData(st, data) ==
  IF st.error # "none" THEN st
  ELSE FsRender([st EXCEPT !.data = data])

\* FilterSystem.setSearch
FsSetSearch(st, query) ==
  IF st.error # "none" THEN st
  ELSE FsRender([st EXCEPT !.searchQuery = Trim(ToLowerCase(query))])

\* FilterSystem.setFilter
\* A setFilter that makes the value the only selection there is, dropping the
\* other dimensions; C22_SetFilterTouchesOneDimension tells it from
\* FsSetFilter
FsSetFilterOnly(st, filterType, value) ==
  IF st.error # "none" THEN st
  ELSE FsRender([st EXCEPT !.activeFilters =
         IF value = << >> \/ value = << "a", "l", "l" >>
           THEN << >>
           ELSE << StrEntry(filterType, value) >>])

FsSetFilter(st, filterType, value) ==
  IF st.error # "none" THEN st
  ELSE FsRender([st EXCEPT !.activeFilters =
         IF value = << >> \/ value = << "a", "l", "l" >>
           THEN FsDelete(@, filterType)
           ELSE FsPut(@, StrEntry(filterType, value))])

\* FilterSystem.toggleFilter.  On an entry that setFilter stored as a string,
\* includes is the substring test and push / filter are not functions; render
\* is not reached after the exception.
FsToggleFilter(st, filterType, value, isActive) ==
  IF st.error # "none" THEN st
  ELSE
    LET af == IF FsIndex(st.activeFilters, filterType) = 0
                THEN Append(st.activeFilters, ArrEntry(filterType, << >>))
                ELSE st.activeFilters
        e == af[FsIndex(af, filterType)]
        rest == SelectSeq(e.arr, LAMBDA v : v # value)
    IN FsRender(
         IF isActive
           THEN IF e.isArr
                  THEN [st EXCEPT !.activeFilters =
                          IF ArrIncludes(e.arr, value) THEN af
                          ELSE FsPut(af, ArrEntry(filterType, Append(e.arr, value)))]
                ELSE IF Includes(e.str, value) THEN st
                ELSE [st EXCEPT !.error = "TypeError:push"]
           ELSE IF e.isArr
                  THEN [st EXCEPT !.activeFilters =
                          IF Len(rest) = 0 THEN FsDelete(af, filterType)
                          ELSE FsPut(af, ArrEntry(filterType, rest))]
                ELSE [st EXCEPT !.error = "TypeError:filter"])

\* FilterSystem.setSort
FsSetSort(st, sortBy, sortOrder) ==
  IF st.error # "none" THEN st
  ELSE FsRender([st EXCEPT !.sortBy = sortBy, !.sortOrder = sortOrder])

\* FilterSystem.resetFilters
FsResetFilters(st) ==
  IF st.error # "none" THEN st
  ELSE FsRender([st EXCEPT !.activeFilters = << >>, !.searchQuery = << >>])

(***************************************************************************)
(* URL state.  A query string is held as URLSearchParams holds it: the     *)
(* ordered list of its (key, value) pairs.                                 *)
(***************************************************************************)

Param(key, value) == [key |-> key, value |-> value]

\* URLSearchParams.get: the first value of the key, "" standing for null
\* (both are falsy where the result is used)
UrlGet(params, key) ==
  IF \E i \in 1..Len(params) : params[i].key = key
    THEN params[CHOOSE i \in 1..Len(params) :
                  params[i].key = key /\ \A j \in 1..(i - 1) : params[j].key # key].value
    ELSE << >>

\* URLSearchParams.set: replaces the key's first pair and drops its others,
\* or appends
UrlSet(params, key, value) ==
  IF \E i \in 1..Len(params) : params[i].key = key
    THEN LET first == CHOOSE i \in 1..Len(params) :
                        params[i].key = key /\ \A j \in 1..(i - 1) : params[j].key # key
         IN SelectSeq([i \in 1..Len(params) |->
                         IF i = first THEN Param(key, value)
                         ELSE IF params[i].key = key THEN Param("", << >>)
                         ELSE params[i]],
                      LAMBDA q : q.key # "")
    ELSE Append(params, Param(key, value))

RECURSIVE FsExportEntries(_, _)
FsExportEntries(params, af) ==
  IF Len(af) = 0 THEN params
  ELSE FsExportEntries(
         UrlSet(params, af[1].key,
                IF af[1].isArr THEN Join(af[1].arr, ",") ELSE af[1].str),
         Tail(af))

\* FilterSystem.exportToURL
FsExportToURL(st) ==
  LET withSearch == IF Len(st.searchQuery) > 0
                      THEN UrlSet(<< >>, "search", st.searchQuery)
                      ELSE << >>
      withFilters == FsExportEntries(withSearch, st.activeFilters)
  IN IF st.sortBy # << "n", "a", "m", "e" >>
       THEN UrlSet(withFilters, "sort", st.sortBy \o << ":" >> \o st.sortOrder)
       ELSE withFilters

\* values.forEach(v => this.toggleFilter(key, v, true))
RECURSIVE FsToggleAll(_, _, _)
FsToggleAll(st, key, values) ==
  IF Len(values) = 0 THEN st
  ELSE FsToggleAll(FsToggleFilter(st, key, values[1], TRUE), key, Tail(values))

\* params.forEach(...) of importFromURL
RECURSIVE FsImportFilters(_, _)
FsImportFilters(st, params) ==
  IF Len(params) = 0 THEN st
  ELSE FsImportFilters(
         IF params[1].key = "search" \/ params[1].key = "sort" THEN st
         ELSE IF Includes(params[1].value, << "," >>)
           THEN FsToggleAll(st, params[1].key, Split(params[1].value, ","))
         ELSE FsSetFilter(st, params[1].key, params[1].value),
         Tail(params))

\* The sort part of importFromURL, sort = params.get('sort'):
\* const [sortBy, sortOrder] = sort.split(':'); setSort(sortBy, sortOrder)
FsImportSort(st, sort) ==
  IF Len(sort) = 0 THEN st
  ELSE FsSetSort(st, Split(sort, ":")[1],
                 IF Len(Split(sort, ":")) >= 2 THEN Split(sort, ":")[2]
                 ELSE << "a", "s", "c" >>)

\* FilterSystem.importFromURL; an exception ends the import where it is thrown
FsImportFromURL(st, params) ==
  FsRender(
    FsImportSort(
      FsImportFilters(
        IF Len(UrlGet(params, "search")) > 0
          THEN FsSetSearch(st, UrlGet(params, "search"))
          ELSE st,
        params),
      UrlGet(params, "sort")))

(***************************************************************************)
(* FiltersManager                                   (src/unnamed/part_000) *)
(***************************************************************************)

VARIABLES
  fmPage,            \* the containers the page holds, per data type
  fmActiveFilters,   \* FiltersManager.activeFilters: type -> filter -> values
  fmSortCriteria,    \* FiltersManager.sortCriteria
  fmSearchQuery,     \* FiltersManager.searchQuery
  fmFilteredData,    \* FiltersManager.filteredData
  fmOriginalData,    \* FiltersManager.originalData
  fmCurrentDataType, \* FiltersManager.currentDataType
  fmLoadQueue,       \* the data types loadInitialData has still to load
  fmChecked,         \* the checked .filter-option__input boxes
  fmInput,           \* value of each .search-controls__input
  fmDirection,       \* data-direction of each .sort-controls__direction
  fmCounts           \* text of the .filter-option__count of each checkbox

fmVars == << fmPage, fmActiveFilters, fmSortCriteria, fmSearchQuery,
             fmFilteredData, fmOriginalData, fmCurrentDataType, fmLoadQueue,
             fmChecked, fmInput, fmDirection, fmCounts >>

\* One call of matchesFilter on its own: the record, the dimension and the
\* selected values it is given, and what it returned; out.sort is what
\* getSortValue returned for the record and the field of that name
VARIABLE probe

\* A DataLoader: its cache and loadingPromises, the requests in flight and
\* the load calls made of it
VARIABLE loader

\* One of the page's other components (a SimpleFiltersComponent, an
\* AnimationsManager's GIF, an AnimationManager's scroll GIF, the App, a
\* TypeTester, a TypetesterFontLoader): a record of its fields, its class in
\* the field class
VARIABLE ui

vars == << controller, fsVars, fmVars, probe, loader, ui >>

\* No such component is under examination
NoUi == [class |-> "none"]

\* new Date().getFullYear(): any year after the newest year option
CurrentYear == 2026

\* FiltersManager.matchesStylesFilter
\* (styleCount = parseInt(styles) || 1, bound once)
FmMatchesStylesFilter(styles, values) ==
  \E styleCount \in { Or(ParseInt(styles), VNum(1)).n } :
    \E value \in values :
      CASE value = << "1" >>                -> styleCount = 1
        [] value = << "2", "-", "5" >>      -> styleCount >= 2 /\ styleCount <= 5
        [] value = << "6", "-", "1", "0" >> -> styleCount >= 6 /\ styleCount <= 10
        [] value = << "1", "0", "+" >>      -> styleCount > 10
        [] OTHER                            -> FALSE

\* FiltersManager.matchesYearFilter
\* (itemYear = parseInt(year) || new Date().getFullYear(), bound once)
FmMatchesYearFilter(year, values) ==
  \E itemYear \in { Or(ParseInt(year), VNum(CurrentYear)).n } :
    \E value \in values :
      CASE value \in { << "2", "0", "2", "4" >>, << "2", "0", "2", "3" >>,
                       << "2", "0", "2", "2" >>, << "2", "0", "2", "1" >> } ->
             itemYear = ParseInt(VStr(value)).n
        [] value = << "o", "l", "d", "e", "r" >> -> itemYear < 2021
        [] OTHER -> FALSE

\* Set.prototype.has for a set of strings
SetHas(values, v) == \E x \in values : StrictEqStr(v, x)

\* A matchesFilter that asks every selected value to equal the field (AND
\* within a dimension); C6_ActivatingNarrowsAddingWidens tells it from
\* FmMatchesFilter
FmMatchesEvery(item, filterKey, values) ==
  \A x \in values : StrictEqStr(Field(item, filterKey), x)

\* FiltersManager.matchesFilter
FmMatchesFilter(item, filterKey, values) ==
  CASE filterKey = "type" -> SetHas(values, Field(item, "type"))
    [] filterKey = "styles" -> FmMatchesStylesFilter(Field(item, "styles"), values)
    [] filterKey = "variable" ->
         (IF StrictEqStr(Field(item, "type"),
                         << "v", "a", "r", "i", "a", "b", "l", "e" >>)
             \/ Truthy(Field(item, "variableAxes"))
            THEN << "y", "e", "s" >> ELSE << "n", "o" >>) \in values
    [] filterKey = "category" -> SetHas(values, Field(item, "category"))
    [] filterKey = "year" -> FmMatchesYearFilter(Field(item, "year"), values)
    [] filterKey = "featured" ->
         (IF Truthy(Field(item, "featured"))
            THEN << "y", "e", "s" >> ELSE << "n", "o" >>) \in values
    [] OTHER -> TRUE

\* item.description?.short, item.description?.full
FmDescriptionPart(item, part) ==
  IF Field(item, "description").t = "object"
    THEN Field(item, IF part = "short" THEN "description_short" ELSE "description_full")
    ELSE VUndef

\* FiltersManager.matchesSearch (the searchable fields of the catalogue are
\* strings where present)
FmMatchesSearch(item, query) ==
  \E field \in { Field(item, "name"), Field(item, "title"),
                 FmDescriptionPart(item, "short"), FmDescriptionPart(item, "full"),
                 Field(item, "category"), Field(item, "type") } :
    /\ Truthy(field)
    /\ Includes(ToLowerCase(field.s), query)

\* FiltersManager.getSortValue
FmGetSortValue(item, field) ==
  CASE field \in { "name", "title" } ->
         Or(Or(Field(item, "name"), Field(item, "title")), VStr(<< >>))
    [] field = "styles" -> Or(ParseInt(Field(item, "styles")), VNum(0))
    [] field = "year" -> Or(ParseInt(Field(item, "year")), VNum(0))
    [] field \in { "category", "type" } ->
         Or(Or(Field(item, "category"), Field(item, "type")), VStr(<< >>))
    [] field = "recent" ->
         Or(Or(Field(item, "dateCreated"), Field(item, "year")), VNum(0))
    [] OTHER -> Or(Field(item, field), VStr(<< >>))

\* The comparator of applySorting, on the two sort values
\* (direction === 'desc' ? -result : result, as a product)
FmCompare(rawA, rawB, direction) ==
  LET both == rawA.t = "string" /\ rawB.t = "string"
      aValue == IF both THEN VStr(ToLowerCase(rawA.s)) ELSE rawA
      bValue == IF both THEN VStr(ToLowerCase(rawB.s)) ELSE rawB
  IN (IF direction = "desc" THEN -1 ELSE 1)
     * (IF JsLess(aValue, bValue) THEN -1
        ELSE IF JsLess(bValue, aValue) THEN 1 ELSE 0)

\* this.filteredData.sort(...) of applySorting
FmSorted(list, sortCriteria) ==
  StableSort(list, LAMBDA a, b :
                     FmCompare(FmGetSortValue(a, sortCriteria.field),
                               FmGetSortValue(b, sortCriteria.field),
                               sortCriteria.direction))

\* Map helpers (Map.prototype.has / get / set / delete on a function)
MapHas(f, k) == k \in DOMAIN f
MapPut(f, k, v) == [x \in (DOMAIN f) \cup {k} |-> IF x = k THEN v ELSE f[x]]
MapDel(f, k) == [x \in (DOMAIN f) \ {k} |-> f[x]]
EmptyMap == [x \in {} |-> {}]

\* The manager object and the controls it reads and writes, as a record
FmState ==
  [ activeFilters   |-> fmActiveFilters,
    sortCriteria    |-> fmSortCriteria,
    searchQuery     |-> fmSearchQuery,
    filteredData    |-> fmFilteredData,
    originalData    |-> fmOriginalData,
    currentDataType |-> fmCurrentDataType,
    checked         |-> fmChecked,
    input           |-> fmInput,
    direction       |-> fmDirection,
    counts          |-> fmCounts ]

\* An applySorting that recounts the options of the data type against the
\* list it is about to show; C19_CountsAreOfLoadedCollection tells it from
\* FmApplySorting
FmApplySortingRecount(m, dataType) ==
  [m EXCEPT !.filteredData = FmSorted(@, m.sortCriteria),
            !.counts = [box \in DOMAIN @ |->
               IF box[1] = dataType
                 THEN Len(SelectSeq(m.filteredData, LAMBDA item :
                            FmMatchesFilter(item, box[2], { box[3] })))
                 ELSE @[box]]]

\* An applySorting whose sort reaches the loaded collection as well;
\* C20_LoadedCollectionIsKept tells it from FmApplySorting
FmApplySortingOfLoaded(m, dataType) ==
  [m EXCEPT !.filteredData = FmSorted(@, m.sortCriteria),
            !.originalData = FmSorted(@, m.sortCriteria)]

\* FiltersManager.applySorting: sorts filteredData in place (then renders)
FmApplySorting(m, dataType) ==
  [m EXCEPT !.filteredData = FmSorted(@, m.sortCriteria)]

\* FiltersManager.applySearch: narrows the current filteredData
FmApplySearch(m, dataType) ==
  FmApplySorting(
    IF Len(m.searchQuery) = 0 THEN m
    ELSE [m EXCEPT !.filteredData =
            SelectSeq(@, LAMBDA item :
                           FmMatchesSearch(item, ToLowerCase(m.searchQuery)))],
    dataType)

\* A forEach that narrows by one dimension only, the others being ignored;
\* C4_FilterStepIsAndOfOrs tells it from FmFilterEach
FmFilterOne(list, typeFilters, keys) ==
  IF keys = {} THEN list
  ELSE SelectSeq(list, LAMBDA item :
         FmMatchesFilter(item, CHOOSE k \in keys : TRUE,
                         typeFilters[CHOOSE k \in keys : TRUE]))

\* typeFilters.forEach((values, filterKey) => filtered = filtered.filter(...))
RECURSIVE FmFilterEach(_, _, _)
FmFilterEach(list, typeFilters, keys) ==
  IF keys = {} THEN list
  ELSE LET filterKey == CHOOSE k \in keys : TRUE
       IN FmFilterEach(
            IF Cardinality(typeFilters[filterKey]) > 0
              THEN SelectSeq(list, LAMBDA item :
                     FmMatchesFilter(item, filterKey, typeFilters[filterKey]))
              ELSE list,
            typeFilters, keys \ {filterKey})

\* The filter step of applyFilters: originalData narrowed by the type's filters
FmFilterStep(originalData, activeFilters, dataType) ==
  IF MapHas(activeFilters, dataType)
    THEN FmFilterEach(originalData, activeFilters[dataType],
                      DOMAIN activeFilters[dataType])
    ELSE originalData

\* FiltersManager.applyFilters
FmApplyFilters(m, dataType) ==
  IF Len(m.originalData) = 0 THEN m
  ELSE FmApplySearch(
         [m EXCEPT !.filteredData =
            FmFilterStep(m.originalData, m.activeFilters, dataType)],
         dataType)

\* A handleFilterChange without the two clean-up deletes: an emptied value set
\* and an emptied type map stay in activeFilters; C5_NoEmptyDimension tells it
\* from FmHandleFilterChange
FmHandleFilterChangeKeep(m, type, filter, value, isChecked) ==
  LET typeFilters0 == IF MapHas(m.activeFilters, type)
                        THEN m.activeFilters[type] ELSE EmptyMap
      filterValues0 == IF MapHas(typeFilters0, filter)
                         THEN typeFilters0[filter] ELSE {}
      filterValues == IF isChecked THEN filterValues0 \cup {value}
                      ELSE filterValues0 \ {value}
      box == << type, filter, value >>
  IN FmApplyFilters(
       [m EXCEPT !.activeFilters =
                   MapPut(@, type, MapPut(typeFilters0, filter, filterValues)),
                 !.checked = IF isChecked THEN @ \cup {box} ELSE @ \ {box}],
       type)

\* FiltersManager.handleFilterChange, for the checkbox (type, filter, value)
\* whose new state is isChecked
FmHandleFilterChange(m, type, filter, value, isChecked) ==
  LET typeFilters0 == IF MapHas(m.activeFilters, type)
                        THEN m.activeFilters[type] ELSE EmptyMap
      filterValues0 == IF MapHas(typeFilters0, filter)
                         THEN typeFilters0[filter] ELSE {}
      filterValues == IF isChecked THEN filterValues0 \cup {value}
                      ELSE filterValues0 \ {value}
      typeFilters == IF filterValues = {} THEN MapDel(typeFilters0, filter)
                     ELSE MapPut(typeFilters0, filter, filterValues)
      active == IF DOMAIN typeFilters = {} THEN MapDel(m.activeFilters, type)
                ELSE MapPut(m.activeFilters, type, typeFilters)
      box == << type, filter, value >>
  IN FmApplyFilters(
       [m EXCEPT !.activeFilters = active,
                 !.checked = IF isChecked THEN @ \cup {box} ELSE @ \ {box}],
       type)

\* FiltersManager.handleSortChange
FmHandleSortChange(m, dataType, field) ==
  FmApplySorting([m EXCEPT !.sortCriteria.field = field], dataType)

\* FiltersManager.handleSortDirectionChange
FmHandleSortDirectionChange(m, dataType) ==
  LET newDirection == IF m.direction[dataType] = "asc" THEN "desc" ELSE "asc"
  IN FmApplySorting(
       [m EXCEPT !.direction[dataType] = newDirection,
                 !.sortCriteria.direction = newDirection],
       dataType)

\* FiltersManager.handleSearchInput, text being the input's new value
FmHandleSearchInput(m, dataType, text) ==
  FmApplySearch([m EXCEPT !.input[dataType] = text, !.searchQuery = Trim(text)],
                dataType)

\* FiltersManager.handleSearchClear (the input exists wherever the button does)
FmHandleSearchClear(m, dataType) ==
  FmApplySearch([m EXCEPT !.input[dataType] = << >>, !.searchQuery = << >>],
                dataType)

\* FiltersManager.handleClearFilters; hasInput: the page holds a
\* .search-controls__input of this data type
FmHandleClearFilters(m, dataType, hasInput) ==
  LET cleared == [m EXCEPT !.activeFilters = MapDel(@, dataType),
                           !.checked = { b \in @ : b[1] # dataType }]
  IN FmApplyFilters(
       IF hasInput
         THEN [cleared EXCEPT !.input[dataType] = << >>, !.searchQuery = << >>]
         ELSE cleared,
       dataType)

\* FiltersManager.clearAllFilters
FmClearAllFilters(m) ==
  LET cleared == [m EXCEPT !.activeFilters = EmptyMap,
                           !.searchQuery = << >>,
                           !.checked = {},
                           !.input = [d \in DOMAIN @ |-> << >>]]
  IN IF m.currentDataType # "null"
       THEN FmApplyFilters(cleared, m.currentDataType)
       ELSE cleared

\* FiltersManager.getFilterCount
FmGetFilterCount(originalData, filterKey, value) ==
  Len(SelectSeq(originalData, LAMBDA item :
                                FmMatchesFilter(item, filterKey, {value})))

\* FiltersManager.updateFilterCounts: the count of every checkbox
\* (type, filter, value) of the data type is written anew
FmUpdateFilterCounts(m, dataType) ==
  [m EXCEPT !.counts =
     [box \in DOMAIN @ |->
        IF box[1] = dataType
          THEN FmGetFilterCount(m.originalData, box[2], box[3])
          ELSE @[box]]]

\* FiltersManager.loadDataForType, data being what the loader resolved to
FmLoadDataForType(m, dataType, data) ==
  FmUpdateFilterCounts(
    [m EXCEPT !.originalData = data,
              !.filteredData = data,
              !.currentDataType = dataType],
    dataType)


(***************************************************************************)
(* Bounds and the inputs the environment draws from                        *)
(***************************************************************************)

\* At most this many filter checkboxes of a FiltersManager page are checked
\* at a time
MaxChecked == 2

\* Texts typed into a search box
SearchTexts == { << >>, << " " >>, << "a", "b" >>, << " ", "B" >>, << "x" >> }

\* The collections handed to FilterSystem.setData, per class
FsCollections(cls) ==
  CASE cls = "TypefaceFilter" -> { "typefaces" }
    [] cls = "ProjectFilter"  -> { "projects" }
    [] OTHER -> { "typefaces", "projects" }

\* (filterType, value) of the single-select controls; "all" and "" clear
FsSelectInputs ==
  { << "type", << "s", "e", "r", "i", "f" >> >>,
    << "type", << "s", "a", "n", "s", "-", "s", "e", "r", "i", "f" >> >>,
    << "type", << "a", "l", "l" >> >>,
    << "category", << "w", "e", "b" >> >>,
    << "category", << >> >> }

\* (filterType, value) of the checkboxes
FsCheckboxInputs ==
  { << "type", << "s", "e", "r", "i", "f" >> >>,
    << "type", << "s", "a", "n", "s", "-", "s", "e", "r", "i", "f" >> >>,
    << "category", << "w", "e", "b" >> >> }

FsSortByInputs ==
  { << "n", "a", "m", "e" >>, << "s", "t", "y", "l", "e", "s" >>,
    << "p", "r", "i", "c", "e" >> }
FsSortOrderInputs == { << "a", "s", "c" >>, << "d", "e", "s", "c" >> }

\* Query strings handed to importFromURL:
\*   "", "search= B&type=serif&sort=styles:desc", "type=serif,sans-serif",
\*   "type=serif&type=sans-serif,serif", "category=web&sort=price"
UrlInputs ==
  { << >>,
    << Param("search", << " ", "B" >>),
       Param("type", << "s", "e", "r", "i", "f" >>),
       Param("sort", << "s", "t", "y", "l", "e", "s", ":", "d", "e", "s", "c" >>) >>,
    << Param("type", << "s", "e", "r", "i", "f", ",",
                        "s", "a", "n", "s", "-", "s", "e", "r", "i", "f" >>) >>,
    << Param("type", << "s", "e", "r", "i", "f" >>),
       Param("type", << "s", "a", "n", "s", "-", "s", "e", "r", "i", "f", ",",
                        "s", "e", "r", "i", "f" >>) >>,
    << Param("category", << "w", "e", "b" >>),
       Param("sort", << "p", "r", "i", "c", "e" >>) >> }

\* The pages a FiltersManager is loaded into: the data types that have a
\* .filters-container (in document order), a .sort-container, a
\* .search-container
Pages ==
  { [ filters |-> << "typefaces" >>, sort |-> { "typefaces" },
      search |-> { "typefaces" } ],
    [ filters |-> << "typefaces", "projects" >>, sort |-> { "typefaces" },
      search |-> { "typefaces" } ] }

NoPage == [ filters |-> << >>, sort |-> {}, search |-> {} ]

\* The checkboxes (filter, value) of a data type that get clicked, among those
\* createFiltersForType creates
FmClickable(dataType) ==
  CASE dataType = "typefaces" ->
         { << "type", << "s", "e", "r", "i", "f" >> >>,
           << "type", << "s", "a", "n", "s", "-", "s", "e", "r", "i", "f" >> >>,
           << "styles", << "1" >> >>, << "styles", << "2", "-", "5" >> >> }
    [] dataType = "projects" ->
         { << "featured", << "y", "e", "s" >> >>, << "featured", << "n", "o" >> >> }
    [] OTHER -> {}

\* Those checkboxes as (type, filter, value), for the filters containers of
\* a page
FmBoxes(page) ==
  UNION { { << type, b[1], b[2] >> : b \in FmClickable(type) } :
          type \in Elems(page.filters) }

\* The sort options that get selected, among those generateSortHTML creates
FmSortInputs(dataType) ==
  CASE dataType = "typefaces" -> { "name", "styles" }
    [] dataType = "projects"  -> { "name", "year" }
    [] OTHER -> {}

(***************************************************************************)
(* Initial state                                                           *)
(***************************************************************************)

\* The FilterSystem variables hold the controller st
InitFs(st) ==
  /\ fsData = st.data
  /\ fsActiveFilters = st.activeFilters
  /\ fsSearchQuery = st.searchQuery
  /\ fsSortBy = st.sortBy
  /\ fsSortOrder = st.sortOrder
  /\ fsRendered = st.rendered
  /\ fsError = st.error

\* FiltersManager constructor, then the controls created by
\* setupFilterInterface
InitFm(page) ==
  /\ fmPage = page
  /\ fmActiveFilters = EmptyMap
  /\ fmSortCriteria = [field |-> "name", direction |-> "asc"]
  /\ fmSearchQuery = << >>
  /\ fmFilteredData = << >>
  /\ fmOriginalData = << >>
  /\ fmCurrentDataType = "null"
  /\ fmLoadQueue = page.filters
  /\ fmChecked = {}
  /\ fmInput = [d \in page.search |-> << >>]
  /\ fmDirection = [d \in page.sort |-> "asc"]
  /\ fmCounts = [box \in FmBoxes(page) |-> 0]

(***************************************************************************)
(* DataLoader.  Three classes of that name load the JSON collections:      *)
(* "part_001" (loadJSON with loadingPromises and retries, wrapped by        *)
(* loadTypefaces / loadProjects / loadLettering), "part_002" and            *)
(* "typetester" (loadData).  A value is what a promise settles with or the  *)
(* cache holds: the body a request fetched (is = "data", fetch = the        *)
(* request's number, shape = how the body is built), a fallback structure   *)
(* (keys = its own keys), or an Error.                                      *)
(***************************************************************************)

\* this.retryAttempts of part_001
RetryAttempts == 3

\* this.retryDelay of part_001, in ms
RetryDelay == 1000

\* Load calls made of one DataLoader
MaxCalls == 2

NoValue == [is |-> "none", fetch |-> 0, shape |-> "", keys |-> {}]

\* The structure a failed load resolves to: the catch of loadTypefaces /
\* loadProjects / loadLettering, getEmptyStructure, getFallbackData
DlFallback(kind, file) ==
  [ is |-> "fallback", fetch |-> 0, shape |-> "",
    keys |->
      CASE kind = "part_001" /\ file = "typefaces" -> { "fonts", "meta" }
        [] kind = "part_001" /\ file = "projects" ->
             { "projects", "categories", "meta" }
        [] kind = "part_001" /\ file = "lettering" ->
             { "lettering", "categories", "styles", "techniques", "meta" }
        [] kind = "part_002" /\ file = "typefaces" -> { "fonts" }
        [] kind = "part_002" /\ file = "projects" -> { "projects" }
        [] kind = "typetester" /\ file = "typefaces" -> { "fonts" }
        [] kind = "typetester" /\ file = "projects" -> { "projects", "categories" }
        [] OTHER -> { "letterings", "types" } ]

\* DataLoader constructor
DlNew(kind) ==
  [ kind            |-> kind,
    cache           |-> [file \in { "typefaces", "projects", "lettering" } |-> NoValue],
    loadingPromises |-> [file \in { "typefaces", "projects", "lettering" } |-> 0],
    fetches         |-> {},
    calls           |-> << >>,
    started         |-> 0,
    clearedAt       |-> 0 ]

\* A collection loader without its try/catch: what loadJSON settled with goes
\* to the caller; C23_LoadNeverRejects tells it from DlCollection
DlRethrow(kind, file, json) == json

\* What the caller of a collection's loader gets, json being what loadJSON
\* settled with: loadTypefaces / loadProjects / loadLettering of part_001
\* map over the records inside a try whose catch returns the fallback (a
\* record that is null makes the mapping throw); loadData of the other two
\* classes is the loader itself
DlCollection(kind, file, json) ==
  IF kind # "part_001" THEN json
  ELSE IF json.state = "rejected" \/ json.value.shape = "badItem"
    THEN [state |-> "resolved", value |-> DlFallback(kind, file)]
  ELSE json

\* A load that never joins the request in flight and starts one of its own;
\* C30_OneRequestPerFile tells it from DlCall
DlCallAlone(l, file) ==
  IF l.cache[file].is # "none"
    THEN [l EXCEPT !.calls = Append(@,
            [ file |-> file, fetch |-> 0,
              json |-> [state |-> "resolved", value |-> l.cache[file]],
              out  |-> DlCollection(l.kind, file,
                         [state |-> "resolved", value |-> l.cache[file]]) ])]
  ELSE [l EXCEPT
          !.started = @ + 1,
          !.fetches = @ \cup { [ id |-> l.started + 1, file |-> file, attempt |-> 1,
                                  waited |-> << >> ] },
          !.loadingPromises[file] = IF l.kind = "part_001" THEN l.started + 1 ELSE @,
          !.calls = Append(@,
            [ file |-> file, fetch |-> l.started + 1,
              json |-> [state |-> "pending", value |-> NoValue],
              out  |-> [state |-> "pending", value |-> NoValue] ])]

\* loadJSON (with the default useCache, as every caller has it) and loadData
\* up to their first await: the cached value, the request in flight for the
\* file (part_001 only), or a new request
DlCall(l, file) ==
  IF l.cache[file].is # "none"
    THEN [l EXCEPT !.calls = Append(@,
            [ file |-> file, fetch |-> 0,
              json |-> [state |-> "resolved", value |-> l.cache[file]],
              out  |-> DlCollection(l.kind, file,
                         [state |-> "resolved", value |-> l.cache[file]]) ])]
  ELSE IF l.kind = "part_001" /\ l.loadingPromises[file] # 0
    THEN [l EXCEPT !.calls = Append(@,
            [ file |-> file, fetch |-> l.loadingPromises[file],
              json |-> [state |-> "pending", value |-> NoValue],
              out  |-> [state |-> "pending", value |-> NoValue] ])]
  ELSE [l EXCEPT
          !.started = @ + 1,
          !.fetches = @ \cup { [ id |-> l.started + 1, file |-> file, attempt |-> 1,
                                  waited |-> << >> ] },
          !.loadingPromises[file] = IF l.kind = "part_001" THEN l.started + 1 ELSE @,
          !.calls = Append(@,
            [ file |-> file, fetch |-> l.started + 1,
              json |-> [state |-> "pending", value |-> NoValue],
              out  |-> [state |-> "pending", value |-> NoValue] ])]

\* A loader that caches whatever the load resolved to, the fallback included;
\* C24_CacheHoldsFetchedData tells it from DlSettled
DlSettledCachingAll(l, f, json) ==
  [l EXCEPT
     !.fetches = @ \ { f },
     !.cache[f.file] = IF json.state = "resolved" THEN json.value ELSE @,
     !.loadingPromises[f.file] = 0,
     !.calls = [i \in DOMAIN @ |->
                  IF @[i].fetch = f.id /\ @[i].json.state = "pending"
                    THEN [@[i] EXCEPT !.json = json,
                                      !.out = DlCollection(l.kind, f.file, json)]
                    ELSE @[i]]]

\* The loader once the request f has ended with json: the callers awaiting
\* it settle, a fetched body is cached, the loadingPromises entry goes
DlSettled(l, f, json) ==
  [l EXCEPT
     !.fetches = @ \ { f },
     !.cache[f.file] = IF json.value.is = "data" THEN json.value ELSE @,
     !.loadingPromises[f.file] = 0,
     !.calls = [i \in DOMAIN @ |->
                  IF @[i].fetch = f.id /\ @[i].json.state = "pending"
                    THEN [@[i] EXCEPT !.json = json,
                                      !.out = DlCollection(l.kind, f.file, json)]
                    ELSE @[i]]]

\* A fetchWithRetry that gives up at the first failure;
\* C31_RetriesThenRejects tells it from DlSettle
DlSettleOnce(l, f, outcome) ==
  IF outcome \in { "ok", "badItem" }
    THEN DlSettled(l, f,
           [ state |-> "resolved",
             value |-> [is |-> "data", fetch |-> f.id, shape |-> outcome,
                        keys |-> {}] ])
  ELSE DlSettled(l, f,
         [ state |-> "rejected",
           value |-> [is |-> "error", fetch |-> f.id, shape |-> outcome,
                      keys |-> {}] ])

\* One attempt of the request f ends.  outcome: "ok", "badItem" (a body of
\* the right structure holding a null record), "invalid" (JSON of another
\* structure), "error" (fetch rejects), "status" (response not ok), "syntax"
\* (body is not JSON).  fetchWithRetry of part_001 validates the body and
\* tries again, after delay(retryDelay * attempt), until retryAttempts, then
\* throws the last error; loadData of the other classes takes any JSON body
\* and resolves to the fallback on a failure.  A request records the delays
\* it has waited
DlSettle(l, f, outcome) ==
  IF outcome \in { "ok", "badItem" }
       \/ (outcome = "invalid" /\ l.kind # "part_001")
    THEN DlSettled(l, f,
           [ state |-> "resolved",
             value |-> [is |-> "data", fetch |-> f.id, shape |-> outcome,
                        keys |-> {}] ])
  ELSE IF l.kind # "part_001"
    THEN DlSettled(l, f, [state |-> "resolved",
                          value |-> DlFallback(l.kind, f.file)])
  ELSE IF f.attempt < RetryAttempts
    THEN [l EXCEPT !.fetches =
            (@ \ { f }) \cup
              { [f EXCEPT !.attempt = @ + 1,
                          !.waited = Append(@, RetryDelay * f.attempt)] }]
  ELSE DlSettled(l, f,
         [ state |-> "rejected",
           value |-> [is |-> "error", fetch |-> f.id, shape |-> outcome,
                      keys |-> {}] ])

\* No call of matchesFilter is under examination
NoProbe ==
  [ item |-> << >>, filterKey |-> "", values |-> << >>,
    out |-> [all |-> "-", each |-> {}, sort |-> VUndef] ]

\* A page constructs one controller: a FilterSystem (or subclass) with no
\* data yet, or a FiltersManager
Init ==
  /\ controller \in FSClasses \cup { "FiltersManager" }
  /\ InitFs(FsNew(IF controller \in FSClasses THEN controller ELSE "FilterSystem",
                  << >>))
  /\ IF controller = "FiltersManager"
       THEN \E page \in Pages : InitFm(page)
       ELSE InitFm(NoPage)
  /\ probe = NoProbe
  /\ loader = DlNew("none")
  /\ ui = NoUi

(***************************************************************************)
(* FilterSystem operations; each call starts with no pending exception     *)
(***************************************************************************)

FsBegin == [FsState EXCEPT !.error = "none"]

\* The controller becomes st
FsStep(st) ==
  /\ controller \in FSClasses
  /\ fsData' = st.data
  /\ fsActiveFilters' = st.activeFilters
  /\ fsSearchQuery' = st.searchQuery
  /\ fsSortBy' = st.sortBy
  /\ fsSortOrder' = st.sortOrder
  /\ fsRendered' = st.rendered
  /\ fsError' = st.error
  /\ UNCHANGED << controller, fmVars, probe, loader, ui >>

SetData ==
  \E c \in FsCollections(controller) \cup { "none" } :
    FsStep(FsSetData(FsBegin, Collection(c)))

SetSearch ==
  \E query \in SearchTexts : FsStep(FsSetSearch(FsBegin, query))

SetFilter ==
  \E in \in FsSelectInputs : FsStep(FsSetFilter(FsBegin, in[1], in[2]))

ToggleFilter ==
  \E in \in FsCheckboxInputs, isActive \in BOOLEAN :
    FsStep(FsToggleFilter(FsBegin, in[1], in[2], isActive))

SetSort ==
  \E sortBy \in FsSortByInputs, sortOrder \in FsSortOrderInputs :
    FsStep(FsSetSort(FsBegin, sortBy, sortOrder))

ResetFilters == FsStep(FsResetFilters(FsBegin))

ImportFromURL ==
  \E url \in UrlInputs : FsStep(FsImportFromURL(FsBegin, url))

(***************************************************************************)
(* FiltersManager events                                                   *)
(***************************************************************************)

\* The manager and its controls become m
FmStep(m) ==
  /\ controller = "FiltersManager"
  /\ fmActiveFilters' = m.activeFilters
  /\ fmSortCriteria' = m.sortCriteria
  /\ fmSearchQuery' = m.searchQuery
  /\ fmFilteredData' = m.filteredData
  /\ fmOriginalData' = m.originalData
  /\ fmCurrentDataType' = m.currentDataType
  /\ fmChecked' = m.checked
  /\ fmInput' = m.input
  /\ fmDirection' = m.direction
  /\ fmCounts' = m.counts
  /\ UNCHANGED << controller, fsVars, fmPage, probe, loader, ui >>

\* One await of loadInitialData resolves: the loader hands over the
\* collection, or the empty fallback
LoadDataForType ==
  /\ Len(fmLoadQueue) > 0
  /\ \E c \in { Head(fmLoadQueue), "none" } :
       FmStep(FmLoadDataForType(FmState, Head(fmLoadQueue), Collection(c)))
  /\ fmLoadQueue' = Tail(fmLoadQueue)

HandleFilterChange ==
  \E type \in Elems(fmPage.filters) :
    \E box \in FmClickable(type) :
      /\ << type, box[1], box[2] >> \notin fmChecked
           => Cardinality(fmChecked) < MaxChecked
      /\ FmStep(FmHandleFilterChange(FmState, type, box[1], box[2],
                                     << type, box[1], box[2] >> \notin fmChecked))
      /\ UNCHANGED fmLoadQueue

HandleSortChange ==
  \E dataType \in fmPage.sort :
    \E field \in FmSortInputs(dataType) :
      /\ FmStep(FmHandleSortChange(FmState, dataType, field))
      /\ UNCHANGED fmLoadQueue

HandleSortDirectionChange ==
  \E dataType \in fmPage.sort :
    /\ FmStep(FmHandleSortDirectionChange(FmState, dataType))
    /\ UNCHANGED fmLoadQueue

HandleSearchInput ==
  \E dataType \in fmPage.search :
    \E text \in SearchTexts \ { fmInput[dataType] } :
      /\ FmStep(FmHandleSearchInput(FmState, dataType, text))
      /\ UNCHANGED fmLoadQueue

HandleSearchClear ==
  \E dataType \in fmPage.search :
    /\ FmStep(FmHandleSearchClear(FmState, dataType))
    /\ UNCHANGED fmLoadQueue

HandleClearFilters ==
  \E dataType \in Elems(fmPage.filters) :
    /\ FmStep(FmHandleClearFilters(FmState, dataType, dataType \in fmPage.search))
    /\ UNCHANGED fmLoadQueue

ClearAllFilters ==
  /\ FmStep(FmClearAllFilters(FmState))
  /\ UNCHANGED fmLoadQueue

Next ==
  \/ SetData
  \/ SetSearch
  \/ SetFilter
  \/ ToggleFilter
  \/ SetSort
  \/ ResetFilters
  \/ ImportFromURL
  \/ LoadDataForType
  \/ HandleFilterChange
  \/ HandleSortChange
  \/ HandleSortDirectionChange
  \/ HandleSearchInput
  \/ HandleSearchClear
  \/ HandleClearFilters
  \/ ClearAllFilters

Spec == Init /\ [][Next]_vars

(***************************************************************************)
(* matchesFilter on its own: one record, one dimension and the values      *)
(* selected in it are handed to the controller's matchesFilter.            *)
(***************************************************************************)

\* The records examined: one field each (style counts around the bucket
\* limits, years around the 'older' cutoff), and a record with none of them
ProbeItems ==
  { [styles |-> VNum(n)] : n \in { 1, 2, 5, 6, 10, 11 } }
  \cup { [year |-> VNum(y)] : y \in { 2019, 2020, 2021, 2023, 2025 } }
  \cup { [style |-> VStr(<< "s" >>)], [style |-> VStr(<< "t" >>)],
         [isExternal |-> VBool(TRUE)], [isExternal |-> VBool(FALSE)],
         [featured |-> VBool(TRUE)], [featured |-> VBool(FALSE)],
         [type |-> VStr(<< "v", "a", "r", "i", "a", "b", "l", "e" >>)],
         [variableAxes |-> VObj(<< << "w", "g", "h", "t" >> >>)],
         [styles |-> VStr(<< "x" >>)],
         [name |-> VStr(<< "n" >>)], [title |-> VStr(<< "t" >>)],
         [name |-> VStr(<< "n" >>), title |-> VStr(<< "t" >>)] }

\* The option values of a dimension: those createFiltersForType offers for
\* styles, variable and featured; offered and other literal years; the two
\* options of external; one value of a dimension no matchesFilter names
ProbeOptions(filterKey) ==
  CASE filterKey = "styles" ->
         << << "1" >>, << "2", "-", "5" >>, << "6", "-", "1", "0" >>,
            << "1", "0", "+" >> >>
    [] filterKey = "year" ->
         << << "2", "0", "2", "3" >>, << "2", "0", "2", "0" >>,
            << "2", "0", "2", "5" >>, << "o", "l", "d", "e", "r" >> >>
    [] filterKey \in { "variable", "featured" } ->
         << << "y", "e", "s" >>, << "n", "o" >> >>
    [] filterKey = "external" ->
         << << "t", "r", "u", "e" >>, << "f", "a", "l", "s", "e" >> >>
    [] OTHER -> << << "s" >> >>

\* The selections of a dimension: every non-empty choice among its options
ProbeSelections(filterKey) ==
  { SelectSeq(ProbeOptions(filterKey), LAMBDA v : v \in chosen) :
      chosen \in (SUBSET Elems(ProbeOptions(filterKey))) \ { {} } }

\* A controller of either kind, and the call it is about to receive
MatchInit ==
  /\ controller \in FSClasses \cup { "FiltersManager" }
  /\ InitFs(FsNew(IF controller \in FSClasses THEN controller ELSE "FilterSystem",
                  << >>))
  /\ InitFm(NoPage)
  /\ \E item \in ProbeItems,
        filterKey \in { "styles", "year", "variable", "featured", "external",
                        "style", "name", "title" } :
       \E values \in ProbeSelections(filterKey) :
         probe = [ item |-> item, filterKey |-> filterKey, values |-> values,
                   out |-> NoProbe.out ]
  /\ loader = DlNew("none")
  /\ ui = NoUi

\* FiltersManager.matchesFilter with the whole selection (as applyFilters
\* calls it) and with each value alone (as getFilterCount calls it)
FmMatchesFilterCall ==
  /\ controller = "FiltersManager"
  /\ probe.out.all = "-"
  /\ probe' = [probe EXCEPT
       !.out.all = B(FmMatchesFilter(probe.item, probe.filterKey,
                                     Elems(probe.values))),
       !.out.each = { << v, B(FmMatchesFilter(probe.item, probe.filterKey, { v })) >> :
                        v \in Elems(probe.values) }]
  /\ UNCHANGED << controller, fsVars, fmVars, loader, ui >>

\* matchesFilter of a FilterSystem class with each value, and over the
\* selection as getFilteredData's some(...) combines them
FsMatchesFilterCall ==
  /\ controller \in FSClasses
  /\ probe.out.all = "-"
  /\ probe' = [probe EXCEPT
       !.out.all = FsEntryMatches(controller, probe.item,
                                  ArrEntry(probe.filterKey, probe.values)),
       !.out.each = { << v, FsMatchesFilter(controller, probe.item,
                                            probe.filterKey, v) >> :
                        v \in Elems(probe.values) }]
  /\ UNCHANGED << controller, fsVars, fmVars, loader, ui >>

\* FiltersManager.getSortValue for the record and the field
FmGetSortValueCall ==
  /\ controller = "FiltersManager"
  /\ probe.out.sort = VUndef
  /\ probe' = [probe EXCEPT
       !.out.sort = FmGetSortValue(probe.item, probe.filterKey)]
  /\ UNCHANGED << controller, fsVars, fmVars, loader, ui >>

MatchNext ==
  \/ FmMatchesFilterCall
  \/ FsMatchesFilterCall
  \/ FmGetSortValueCall

MatchSpec == MatchInit /\ [][MatchNext]_vars

(***************************************************************************)
(* A DataLoader on its own: load calls, the requests ending, clearCache    *)
(***************************************************************************)

LoaderInit ==
  /\ controller = "DataLoader"
  /\ InitFs(FsNew("FilterSystem", << >>))
  /\ InitFm(NoPage)
  /\ probe = NoProbe
  /\ loader \in { DlNew(kind) : kind \in { "part_001", "part_002", "typetester" } }
  /\ ui = NoUi

\* loadTypefaces / loadProjects / loadLettering, getTypefaces / ... is called
Load ==
  /\ Len(loader.calls) < MaxCalls
  /\ \E file \in DOMAIN loader.cache : loader' = DlCall(loader, file)
  /\ UNCHANGED << controller, fsVars, fmVars, probe, ui >>

\* A request in flight ends one attempt
Settle ==
  /\ \E f \in loader.fetches :
       \E outcome \in { "ok", "badItem", "invalid", "error", "status", "syntax" } :
         loader' = DlSettle(loader, f, outcome)
  /\ UNCHANGED << controller, fsVars, fmVars, probe, ui >>

\* DataLoader.clearCache (App.refreshData calls it before loading again)
ClearCache ==
  /\ loader' = [loader EXCEPT !.cache = [file \in DOMAIN @ |-> NoValue],
                              !.clearedAt = loader.started]
  /\ UNCHANGED << controller, fsVars, fmVars, probe, ui >>

LoaderNext ==
  \/ Load
  \/ Settle
  \/ ClearCache

LoaderSpec == LoaderInit /\ [][LoaderNext]_vars

\* The loader where every request in flight and every delay comes to an end:
\* the browser settles each fetch and fires each timer
LoaderLiveSpec == LoaderInit /\ [][LoaderNext]_vars /\ WF_vars(Settle)

(***************************************************************************)
(* The visible list, as filters -> search -> sort of the loaded collection *)
(***************************************************************************)

\* The records of list that the search step keeps for searchQuery
FmSearched(list, searchQuery) ==
  SelectSeq(list, LAMBDA item :
    Len(searchQuery) = 0 \/ FmMatchesSearch(item, ToLowerCase(searchQuery)))

\* filters, then search, then sort, of m's whole originalData
FmPipeline(m, dataType) ==
  FmSorted(FmSearched(FmFilterStep(m.originalData, m.activeFilters, dataType),
                      m.searchQuery),
           m.sortCriteria)

\* A FiltersManager of a page with one data type, whose collection is loaded
FmLoadedSingle ==
  /\ controller = "FiltersManager"
  /\ Len(fmPage.filters) = 1
  /\ fmCurrentDataType # "null"

(***************************************************************************)
(* Properties                                                              *)
(***************************************************************************)

\* C1: after any sequence of filter, search, sort and clear events, the
\* visible list of a FiltersManager (filteredData) is the result of filters,
\* then search, then sort, applied to the whole loaded collection: it depends
\* on the current state only, not on the events that led to it.  Hence every
\* event that starts from such a list ends in such a list.
C1_VisibleIsPipeline ==
  [][( /\ FmLoadedSingle
       /\ fmLoadQueue = << >>
       /\ fmFilteredData = FmPipeline(FmState, fmCurrentDataType) )
       => fmFilteredData'
            = FmPipeline([ originalData  |-> fmOriginalData',
                           activeFilters |-> fmActiveFilters',
                           searchQuery   |-> fmSearchQuery',
                           sortCriteria  |-> fmSortCriteria' ],
                         fmCurrentDataType')]_vars

\* C2: whenever no filter is active and the search query is empty, the visible
\* list of a FiltersManager holds every record of the loaded collection
\* exactly once.
C2_EmptyStateShowsAll ==
  ( /\ controller = "FiltersManager"
    /\ fmCurrentDataType # "null"
    /\ DOMAIN fmActiveFilters = {}
    /\ Len(fmSearchQuery) = 0 )
    => /\ Len(fmFilteredData) = Len(fmOriginalData)
       /\ Elems(fmFilteredData) = Elems(fmOriginalData)

\* C3: for a non-empty search query, after any search event the visible list
\* of a FiltersManager holds exactly the records that pass the active filters
\* and have a searchable field containing the query, case-insensitively.
\* Hence a search event that starts from the records that pass the filters and
\* the previous search ends in those that pass the filters and the new search.
C3_SearchShowsMatches ==
  [][\A dataType \in fmPage.search :
       \A text \in SearchTexts :
         ( /\ FmLoadedSingle
           /\ fmLoadQueue = << >>
           /\ Elems(fmFilteredData)
                = Elems(FmSearched(FmFilterStep(fmOriginalData, fmActiveFilters,
                                                fmCurrentDataType),
                                   fmSearchQuery))
           /\ FmStep(FmHandleSearchInput(FmState, dataType, text))
           /\ UNCHANGED fmLoadQueue
           /\ Len(fmSearchQuery') > 0 )
           => Elems(fmFilteredData')
                = Elems(FmSearched(FmFilterStep(fmOriginalData',
                                                fmActiveFilters',
                                                fmCurrentDataType'),
                                   fmSearchQuery'))]_vars

\* C4: the filter step keeps a record if and only if, for every active
\* dimension, the record matches at least one of the dimension's selected
\* values; with no active dimension it keeps every record.  For the
\* FiltersManager the step is that of applyFilters, for the FilterSystem that
\* of getFilteredData when no matchesFilter call throws.
C4_FilterStepIsAndOfOrs ==
  /\ controller = "FiltersManager" =>
       \A dataType \in Elems(fmPage.filters) :
         FmFilterStep(fmOriginalData, fmActiveFilters, dataType)
           = SelectSeq(fmOriginalData, LAMBDA item :
               MapHas(fmActiveFilters, dataType) =>
                 \A filterKey \in DOMAIN fmActiveFilters[dataType] :
                   \E value \in fmActiveFilters[dataType][filterKey] :
                     FmMatchesFilter(item, filterKey, {value}))
  /\ controller \in FSClasses =>
       \E r \in { FsApplyEntries(controller,
                                 [error |-> "none", list |-> fsData],
                                 fsActiveFilters) } :
         r.error = "none" =>
           r.list = SelectSeq(fsData, LAMBDA item :
                      \A i \in 1..Len(fsActiveFilters) :
                        \E value \in Elems(FsEntryValues(fsActiveFilters[i])) :
                          FsMatchesFilter(controller, item,
                                          fsActiveFilters[i].key, value) = "T")

\* C4 witness: a FiltersManager with two active dimensions of one data type
\* whose filter step keeps one record of a larger collection.
C4_Witness ==
  /\ controller = "FiltersManager"
  /\ MapHas(fmActiveFilters, "typefaces")
  /\ Cardinality(DOMAIN fmActiveFilters["typefaces"]) = 2
  /\ Len(fmOriginalData) = 3
  /\ Len(FmFilterStep(fmOriginalData, fmActiveFilters, "typefaces")) = 1
  /\ Len(fmFilteredData) = 1

\* C5: no dimension is present with an empty set of selected values, and in
\* the FiltersManager no data type is present with no dimension.
C5_NoEmptyDimension ==
  /\ \A dataType \in DOMAIN fmActiveFilters :
       /\ DOMAIN fmActiveFilters[dataType] # {}
       /\ \A filterKey \in DOMAIN fmActiveFilters[dataType] :
            fmActiveFilters[dataType][filterKey] # {}
  /\ \A i \in 1..Len(fsActiveFilters) :
       IF fsActiveFilters[i].isArr
         THEN Len(fsActiveFilters[i].arr) > 0
         ELSE Len(fsActiveFilters[i].str) > 0

\* C5 witness: one checkbox is left checked and its dimension is the only one
\* in activeFilters, the collection being loaded.
C5_Witness ==
  /\ controller = "FiltersManager"
  /\ Len(fmOriginalData) > 0
  /\ Cardinality(fmChecked) = 1
  /\ MapHas(fmActiveFilters, "typefaces")
  /\ DOMAIN fmActiveFilters["typefaces"] = { "styles" }
  /\ Cardinality(fmActiveFilters["typefaces"]["styles"]) = 1

C7_RoundTrip ==
  controller \in FSClasses =>
    \E visible \in { FsGetFilteredData(FsBegin) },
       fresh \in { FsImportFromURL(FsNew(controller, fsData),
                                   FsExportToURL(FsBegin)) } :
      visible.error = "none"
        => (fresh.error = "none" /\ fresh.rendered = visible.list)

\* C8: no sequence of setFilter, toggleFilter, setSearch, setSort,
\* resetFilters and importFromURL calls ends in a throw of toggleFilter
\* (.push or .filter of a single-selection string).
C8_NoCallThrows ==
  fsError \notin { "TypeError:push", "TypeError:filter" }

\* C9: computing the visible list never throws because a record lacks a
\* field (a price, a name, a description) or has a description that is not a
\* string.
C9_MissingFieldNeverThrows ==
  fsError \notin { "TypeError:toLowerCase", "TypeError:matchesFilter",
                   "TypeError:getSortValue" }

\* C10: after handleClearFilters for a data type, that type has no active
\* filter and the search query is empty, whichever controls the page has.
C10_ClearFiltersClearsSearch ==
  [][\A dataType \in Elems(fmPage.filters) :
       ( /\ fmLoadQueue = << >>
         /\ FmStep(FmHandleClearFilters(FmState, dataType,
                                        dataType \in fmPage.search))
         /\ UNCHANGED fmLoadQueue )
         => ( /\ ~MapHas(fmActiveFilters', dataType)
              /\ Len(fmSearchQuery') = 0 )]_vars

\* The active filters of one data type (activeFilters.get(dataType)), and its
\* checked checkboxes
FmFiltersOf(activeFilters, dataType) ==
  IF MapHas(activeFilters, dataType) THEN activeFilters[dataType] ELSE EmptyMap

FmCheckedOf(checked, dataType) == { box \in checked : box[1] = dataType }

\* C11: a clear-all issued for one data type changes the active filters and
\* the checked checkboxes of that data type only, both for the "Clear All"
\* button of a data type (handleClearFilters) and for the "Clear all filters"
\* button shown with an empty result list (clearAllFilters).
C11_ClearAllChangesOneDomain ==
  [][ /\ \A dataType \in Elems(fmPage.filters) :
           ( /\ FmStep(FmHandleClearFilters(FmState, dataType,
                                            dataType \in fmPage.search))
             /\ UNCHANGED fmLoadQueue )
           => \A other \in Elems(fmPage.filters) \ { dataType } :
                /\ FmFiltersOf(fmActiveFilters', other)
                     = FmFiltersOf(fmActiveFilters, other)
                /\ FmCheckedOf(fmChecked', other) = FmCheckedOf(fmChecked, other)
      /\ ( /\ fmLoadQueue = << >>
           /\ fmCurrentDataType # "null"
           /\ Len(fmFilteredData) = 0
           /\ FmStep(FmClearAllFilters(FmState))
           /\ UNCHANGED fmLoadQueue )
         => \E dataType \in Elems(fmPage.filters) :
              \A other \in Elems(fmPage.filters) \ { dataType } :
                /\ FmFiltersOf(fmActiveFilters', other)
                     = FmFiltersOf(fmActiveFilters, other)
                /\ FmCheckedOf(fmChecked', other) = FmCheckedOf(fmChecked, other)
    ]_vars

\* C12: user interface and state never diverge: every filter checkbox is
\* checked if and only if its value is in the active selection of its
\* dimension, and a search box shows the empty string if and only if the
\* search query is empty.
C12_ControlsShowState ==
  controller = "FiltersManager" =>
    /\ \A box \in FmBoxes(fmPage) :
         box \in fmChecked
           <=> ( /\ MapHas(fmActiveFilters, box[1])
                 /\ MapHas(fmActiveFilters[box[1]], box[2])
                 /\ box[3] \in fmActiveFilters[box[1]][box[2]] )
    /\ \A dataType \in fmPage.search :
         Len(fmInput[dataType]) = 0 <=> Len(fmSearchQuery) = 0

\* A search-input, search-clear, sort-field or sort-direction event on the
\* controls of dataType
FmSearchOrSortEvent(dataType) ==
  \/ /\ dataType \in fmPage.search
     /\ \/ \E text \in SearchTexts :
             FmStep(FmHandleSearchInput(FmState, dataType, text))
        \/ FmStep(FmHandleSearchClear(FmState, dataType))
  \/ /\ dataType \in fmPage.sort
     /\ \/ \E field \in FmSortInputs(dataType) :
             FmStep(FmHandleSortChange(FmState, dataType, field))
        \/ FmStep(FmHandleSortDirectionChange(FmState, dataType))

\* C13: the search query and the sort criteria are owned per data type: a
\* search or sort event on the controls of one data type never changes the
\* query, the sort field or the sort direction applied to another, so the
\* list applyFilters shows for another data type is the same before and after
\* the event.
C13_SearchAndSortPerDomain ==
  [][\A dataType \in fmPage.search \cup fmPage.sort :
       \A other \in Elems(fmPage.filters) \ { dataType } :
         ( /\ fmLoadQueue = << >>
           /\ UNCHANGED fmLoadQueue
           /\ FmSearchOrSortEvent(dataType) )
           => FmApplyFilters([ originalData  |-> fmOriginalData',
                               filteredData  |-> fmFilteredData',
                               activeFilters |-> fmActiveFilters',
                               searchQuery   |-> fmSearchQuery',
                               sortCriteria  |-> fmSortCriteria' ],
                             other).filteredData
                = FmApplyFilters(FmState, other).filteredData]_vars

\* C14: the visible list is always fully ordered by the comparator on the
\* current sort field: no record is followed by one the comparator puts
\* before it (ascending: none is greater than its successor, descending: none
\* is smaller).
C14_VisibleIsOrdered ==
  /\ (controller = "FiltersManager" /\ fmCurrentDataType # "null") =>
       \A i \in 1..(Len(fmFilteredData) - 1) :
         FmCompare(FmGetSortValue(fmFilteredData[i], fmSortCriteria.field),
                   FmGetSortValue(fmFilteredData[i + 1], fmSortCriteria.field),
                   fmSortCriteria.direction) <= 0
  /\ (controller \in FSClasses /\ fsError = "none") =>
       \A i \in 1..(Len(fsRendered) - 1) :
         FsCompare(FsGetSortValue(fsRendered[i], fsSortBy).v,
                   FsGetSortValue(fsRendered[i + 1], fsSortBy).v,
                   fsSortOrder) <= 0

(***************************************************************************)
(* The matching rule of each kind of dimension                             *)
(***************************************************************************)

\* The dimensions FiltersManager.matchesFilter has a case for
FmDimensions == { "type", "styles", "variable", "category", "year", "featured" }

\* The dimensions the matchesFilter of a FilterSystem class has a case for
FsDimensions(cls) ==
  { "type", "styles", "status", "external", "price", "features", "languages" }
  \cup (IF cls = "TypefaceFilter" THEN { "variableAxes" } ELSE {})
  \cup (IF cls = "ProjectFilter" THEN { "fonts", "category" } ELSE {})

\* C15: in the styles dimension a record with a style count matches exactly
\* when the count lies in at least one selected bucket, the buckets being
\* 1, 2 to 5, 6 to 10, and 10 and above.
C15_StylesBucketsInclusive ==
  ( /\ controller = "FiltersManager"
    /\ probe.filterKey = "styles"
    /\ probe.out.all # "-"
    /\ "styles" \in DOMAIN probe.item )
  => ( probe.out.all = "T"
       <=> \E value \in Elems(probe.values), styleCount \in { probe.item.styles.n } :
             CASE value = << "1" >>                -> styleCount = 1
               [] value = << "2", "-", "5" >>      -> styleCount >= 2 /\ styleCount <= 5
               [] value = << "6", "-", "1", "0" >> -> styleCount >= 6 /\ styleCount <= 10
               [] value = << "1", "0", "+" >>      -> styleCount >= 10
               [] OTHER                            -> FALSE )

\* C16: in the year dimension a record with a year matches exactly when its
\* year equals some selected literal year, whichever year that is, or
\* 'older' is selected and its year is below 2021.
C16_YearLiteralOrOlder ==
  ( /\ controller = "FiltersManager"
    /\ probe.filterKey = "year"
    /\ probe.out.all # "-"
    /\ "year" \in DOMAIN probe.item )
  => ( probe.out.all = "T"
       <=> \E value \in Elems(probe.values) :
             IF value = << "o", "l", "d", "e", "r" >>
               THEN probe.item.year.n < 2021
               ELSE probe.item.year.n = ParseInt(VStr(value)).n )

\* C17: for a dimension the controller's matchesFilter has no case for, a
\* record matches a selected value exactly when its field of that name is
\* strictly equal to the value; a differing or absent field does not match.
C17_UnknownDimensionIsEquality ==
  ( /\ probe.out.all # "-"
    /\ IF controller = "FiltersManager"
         THEN probe.filterKey \notin FmDimensions
         ELSE probe.filterKey \notin FsDimensions(controller) )
  => \A r \in probe.out.each :
       r[2] = B(StrictEqStr(Field(probe.item, probe.filterKey), r[1]))

\* C18: in a yes/no or true/false dimension (variable and featured of
\* FiltersManager, external of FilterSystem) every record, one without the
\* field included, matches exactly one of the two options.
C18_ExactlyOneOfTwoOptions ==
  ( /\ probe.out.all # "-"
    /\ Len(probe.values) = 2
    /\ IF controller = "FiltersManager"
         THEN probe.filterKey \in { "variable", "featured" }
         ELSE probe.filterKey = "external" )
  => Cardinality({ r \in probe.out.each : r[2] = "T" }) = 1

(***************************************************************************)
(* The option counts and the loaded collection                             *)
(***************************************************************************)

\* C19: the count next to each option is the number of records of the
\* collection loaded for its data type that match the option alone: it is 0
\* until the type is loaded, loadDataForType writes the counts of the type it
\* loads from the collection it received and leaves those of other types,
\* and no other step changes any count.
C19_CountsAreOfLoadedCollection ==
  [][ controller = "FiltersManager" =>
        /\ \A box \in FmBoxes(fmPage) :
             box[1] \in Elems(fmLoadQueue) => fmCounts[box] = 0
        /\ fmLoadQueue' = fmLoadQueue => fmCounts' = fmCounts
        /\ fmLoadQueue' # fmLoadQueue =>
             \A box \in FmBoxes(fmPage) :
               fmCounts'[box] =
                 IF box[1] = fmCurrentDataType'
                   THEN Cardinality({ i \in 1..Len(fmOriginalData') :
                          FmMatchesFilter(fmOriginalData'[i], box[2], { box[3] }) })
                   ELSE fmCounts[box] ]_vars

\* Every type is loaded, an option is checked, and the count of some option
\* exceeds the length of the list shown
C19_Witness ==
  /\ controller = "FiltersManager"
  /\ fmLoadQueue = << >>
  /\ fmChecked # {}
  /\ \E box \in FmBoxes(fmPage) :
       box[1] = fmCurrentDataType /\ fmCounts[box] > Len(fmFilteredData)

\* C20: only loading changes the loaded collection: a step that changes
\* originalData is a loadDataForType, a step that changes data is a setData;
\* every filter, search, sort, clear and URL-import step leaves the records
\* and their order as loaded.
C20_LoadedCollectionIsKept ==
  [][ /\ fmOriginalData' # fmOriginalData => fmLoadQueue' # fmLoadQueue
      /\ fsData' # fsData => SetData ]_vars

\* The loaded typefaces are shown in another order than they were loaded in,
\* and are still held in the order loaded
C20_Witness ==
  /\ controller = "FiltersManager"
  /\ fmCurrentDataType = "typefaces"
  /\ fmOriginalData = Collection("typefaces")
  /\ Len(fmFilteredData) = Len(fmOriginalData)
  /\ fmFilteredData # fmOriginalData

(***************************************************************************)
(* The stored search query and the single selection of a dimension         *)
(***************************************************************************)

\* C21: after a search event the stored query is the trimmed, lower-cased
\* form of the text typed, in FilterSystem.setSearch and in
\* FiltersManager.handleSearchInput alike.
C21_StoredQueryIsNormalised ==
  [][ /\ \A dataType \in fmPage.search, text \in SearchTexts :
           ( /\ FmStep(FmHandleSearchInput(FmState, dataType, text))
             /\ UNCHANGED fmLoadQueue )
           => fmSearchQuery' = Trim(ToLowerCase(text))
      /\ \A query \in SearchTexts :
           FsStep(FsSetSearch(FsBegin, query))
           => fsSearchQuery' = Trim(ToLowerCase(query)) ]_vars

\* C22: setFilter(dimension, value) with value '' or 'all' removes the
\* dimension from the active filters and with any other value makes it the
\* dimension's single selection; either way every other dimension, the
\* search query and the sort criteria are as before.
C22_SetFilterTouchesOneDimension ==
  controller \in FSClasses =>
    \A in \in FsSelectInputs :
      \E after \in { FsSetFilter(FsBegin, in[1], in[2]) } :
        /\ SelectSeq(after.activeFilters, LAMBDA e : e.key = in[1])
             = IF in[2] \in { << >>, << "a", "l", "l" >> }
                 THEN << >>
                 ELSE << StrEntry(in[1], in[2]) >>
        /\ SelectSeq(after.activeFilters, LAMBDA e : e.key # in[1])
             = SelectSeq(fsActiveFilters, LAMBDA e : e.key # in[1])
        /\ after.searchQuery = fsSearchQuery
        /\ after.sortBy = fsSortBy
        /\ after.sortOrder = fsSortOrder

\* A single selection stands next to another dimension's selection, with a
\* search query stored and a sort other than the initial one
C22_Witness ==
  /\ controller \in FSClasses
  /\ Len(fsActiveFilters) >= 2
  /\ \E i \in 1..Len(fsActiveFilters) :
       /\ ~fsActiveFilters[i].isArr
       /\ << fsActiveFilters[i].key, fsActiveFilters[i].str >> \in FsSelectInputs
  /\ Len(fsSearchQuery) > 0
  /\ << fsSortBy, fsSortOrder >> # << FsNew(controller, << >>).sortBy,
                                      FsNew(controller, << >>).sortOrder >>

(***************************************************************************)
(* Loading the collections                                                 *)
(***************************************************************************)

\* C23: a load of a collection never rejects, and when an attempt fails (the
\* fetch rejects, the status is not OK, the body is not JSON, or validation
\* fails where the loader validates) the callers awaiting the request get the
\* collection's fallback structure, unless the loader tries again.
C23_LoadNeverRejects ==
  /\ \A i \in DOMAIN loader.calls : loader.calls[i].out.state # "rejected"
  /\ \A f \in loader.fetches :
       /\ f.attempt <= RetryAttempts
       /\ \A outcome \in { "error", "status", "syntax" }
                         \cup (IF loader.kind = "part_001" THEN { "invalid" } ELSE {}) :
            \E after \in { DlSettle(loader, f, outcome) } :
              \/ /\ loader.kind = "part_001"
                 /\ f.attempt < RetryAttempts
                 /\ \E h \in after.fetches :
                      h.id = f.id /\ h.attempt = f.attempt + 1
                 /\ after.calls = loader.calls
              \/ \A i \in DOMAIN loader.calls :
                   loader.calls[i].fetch = f.id
                   => after.calls[i].out
                        = [ state |-> "resolved",
                            value |-> DlFallback(loader.kind, f.file) ]

\* A load whose request failed has resolved to the fallback structure, in a
\* loader whose loadJSON rejected and in one that has no loadJSON
C23_Witness ==
  \E i \in DOMAIN loader.calls :
    /\ loader.calls[i].fetch # 0
    /\ loader.calls[i].out.state = "resolved"
    /\ loader.calls[i].out.value = DlFallback(loader.kind, loader.calls[i].file)
    /\ loader.kind = "part_001" => loader.calls[i].json.state = "rejected"

\* C24: the cache holds fetched bodies only; a load of a cached file
\* resolves to the cached value and starts no request; a failed attempt
\* leaves the cache as it is and no request ending removes an entry; a load
\* of a file that is not cached awaits a request, a new one unless
\* loadingPromises holds one for the file.
C24_CacheHoldsFetchedData ==
  \A file \in DOMAIN loader.cache :
    /\ loader.cache[file].is \in { "none", "data" }
    /\ \E after \in { DlCall(loader, file) } :
         IF loader.cache[file].is = "data"
           THEN /\ after.started = loader.started
                /\ after.fetches = loader.fetches
                /\ after.calls[Len(after.calls)].fetch = 0
                /\ after.calls[Len(after.calls)].json
                     = [state |-> "resolved", value |-> loader.cache[file]]
           ELSE /\ after.calls[Len(after.calls)].fetch # 0
                /\ \E f \in after.fetches :
                     f.file = file /\ f.id = after.calls[Len(after.calls)].fetch
                /\ ( loader.kind = "part_001" /\ loader.loadingPromises[file] # 0 )
                   \/ after.started = loader.started + 1
    /\ \A f \in loader.fetches :
         /\ \A outcome \in { "error", "status", "syntax" }
                           \cup (IF loader.kind = "part_001" THEN { "invalid" } ELSE {}) :
              DlSettle(loader, f, outcome).cache = loader.cache
         /\ \A outcome \in { "ok", "badItem" } :
              \E after \in { DlSettle(loader, f, outcome) } :
                /\ after.cache[f.file].is = "data"
                /\ after.cache[f.file].fetch = f.id
                /\ loader.cache[file].is = "data" => after.cache[file].is = "data"

\* A second load was served from the cache the first one filled, or a load
\* after a failed one started a request of its own
C24_Witness ==
  /\ Len(loader.calls) = 2
  /\ loader.calls[1].file = loader.calls[2].file
  /\ loader.calls[1].fetch # 0
  /\ loader.calls[1].json.state # "pending"
  /\ IF loader.calls[1].json.value.is = "data"
       THEN /\ loader.calls[2].fetch = 0
            /\ loader.calls[2].json.value = loader.calls[1].json.value
       ELSE /\ loader.calls[2].fetch > loader.calls[1].fetch
            /\ loader.cache[loader.calls[1].file] = NoValue

(***************************************************************************)
(* Rendering                                                               *)
(***************************************************************************)

\* C25: each of setData, setSearch, setFilter, toggleFilter, setSort and
\* resetFilters, called in any state, calls onRender exactly once, with the
\* visible list of the state the operation leaves.
C25_OneRenderPerOperation ==
  controller \in FSClasses =>
    \A after \in
         { FsSetData(FsBegin, Collection(c)) :
             c \in FsCollections(controller) \cup { "none" } }
         \cup { FsSetSearch(FsBegin, query) : query \in SearchTexts }
         \cup { FsSetFilter(FsBegin, in[1], in[2]) : in \in FsSelectInputs }
         \cup { FsToggleFilter(FsBegin, in[1], in[2], isActive) :
                  in \in FsCheckboxInputs, isActive \in BOOLEAN }
         \cup { FsSetSort(FsBegin, sortBy, sortOrder) :
                  sortBy \in FsSortByInputs, sortOrder \in FsSortOrderInputs }
         \cup { FsResetFilters(FsBegin) } :
      /\ after.renders = 1
      /\ after.rendered = FsGetFilteredData(after).list

(***************************************************************************)
(* Sort values and the style count of a record                             *)
(***************************************************************************)

\* C26: the sort value for 'name' is the record's name, its title only when
\* the name is missing; the sort value for 'title' is the record's title,
\* its name only when the title is missing; with neither, the empty string.
C26_NameAndTitleFallBack ==
  ( /\ controller = "FiltersManager"
    /\ probe.out.sort # VUndef
    /\ probe.filterKey \in { "name", "title" } )
  => probe.out.sort
       = IF probe.filterKey = "name"
           THEN Or(Or(Field(probe.item, "name"), Field(probe.item, "title")),
                   VStr(<< >>))
           ELSE Or(Or(Field(probe.item, "title"), Field(probe.item, "name")),
                   VStr(<< >>))

\* C27: in the styles dimension a record whose style count is missing or is
\* not an integer counts as having 0 styles and matches none of the buckets.
C27_NoStyleCountMatchesNoBucket ==
  ( /\ controller = "FiltersManager"
    /\ probe.filterKey = "styles"
    /\ probe.out.all # "-"
    /\ ParseInt(Field(probe.item, "styles")).t = "NaN" )
  => probe.out.all = "F"

(***************************************************************************)
(* Pages with more than one data type                                      *)
(***************************************************************************)

\* C28: once every initial load has finished, a filter or search event of a
\* data type renders into that type's results container records of that
\* type's own collection only.
C28_RendersOwnCollection ==
  ( controller = "FiltersManager" /\ fmLoadQueue = << >> ) =>
    \A type \in Elems(fmPage.filters) :
      /\ \A box \in FmClickable(type) :
           Elems(FmHandleFilterChange(FmState, type, box[1], box[2],
                   << type, box[1], box[2] >> \notin fmChecked).filteredData)
             \subseteq Elems(Collection(type))
      /\ type \in fmPage.search =>
           \A text \in SearchTexts :
             Elems(FmHandleSearchInput(FmState, type, text).filteredData)
               \subseteq Elems(Collection(type))

(***************************************************************************)
(* Requests in flight                                                      *)
(***************************************************************************)

\* C29: after clearCache the cache of the part_001 loader never holds a body
\* whose request started before the clear, and a load made after the clear
\* never awaits a request started before it.
C29_NothingFromBeforeTheClear ==
  loader.kind = "part_001" =>
    \A file \in DOMAIN loader.cache :
      /\ loader.cache[file].is = "data" => loader.cache[file].fetch > loader.clearedAt
      /\ \E after \in { DlCall(loader, file) } :
           after.calls[Len(after.calls)].fetch \in { 0 } \cup
             { n \in 1..after.started : n > loader.clearedAt }

\* C30: in the part_001 loader at most one request is in flight per file;
\* loadingPromises holds an entry for a file exactly while its request is in
\* flight, so none once it has settled; the calls that await one request are
\* pending while it is in flight and settle with one and the same result.
C30_OneRequestPerFile ==
  loader.kind = "part_001" =>
    /\ \A f, g \in loader.fetches : f.file = g.file => f = g
    /\ \A file \in DOMAIN loader.loadingPromises :
         /\ loader.loadingPromises[file] # 0
              <=> \E f \in loader.fetches : f.file = file
         /\ \A f \in loader.fetches :
              f.file = file => f.id = loader.loadingPromises[file]
    /\ \A i, j \in DOMAIN loader.calls :
         ( loader.calls[i].fetch # 0 /\ loader.calls[i].fetch = loader.calls[j].fetch )
         => loader.calls[i].json = loader.calls[j].json
    /\ \A i \in DOMAIN loader.calls :
         loader.calls[i].json.state = "pending"
           <=> \E f \in loader.fetches : f.id = loader.calls[i].fetch

\* Two calls awaited one request, which has settled: both have its result and
\* loadingPromises is empty
C30_Witness ==
  /\ loader.kind = "part_001"
  /\ Len(loader.calls) = 2
  /\ loader.calls[1].fetch # 0
  /\ loader.calls[1].fetch = loader.calls[2].fetch
  /\ loader.calls[1].json.state # "pending"
  /\ loader.calls[2].json = loader.calls[1].json
  /\ \A file \in DOMAIN loader.loadingPromises : loader.loadingPromises[file] = 0

(***************************************************************************)
(* C31: one fetchWithRetry of part_001 makes at most retryAttempts (3)     *)
(* fetches, has waited 1000 ms before the second and 2000 ms more before   *)
(* the third, resolves with the body of the attempt that succeeded and     *)
(* validated, rejects with the last error only when the third attempt has  *)
(* failed, and every call comes to an end.                                 *)
(***************************************************************************)
C31_Step ==
  \A f \in loader.fetches :
    \/ loader.kind # "part_001"
    \/ f \in loader'.fetches
    \/ \E h \in loader'.fetches :
         /\ h.id = f.id
         /\ f.attempt < 3
         /\ h.attempt = f.attempt + 1
         /\ h.waited = Append(f.waited, 1000 * f.attempt)
         /\ \A i \in DOMAIN loader.calls :
              loader.calls[i].fetch = f.id => loader'.calls[i] = loader.calls[i]
    \/ /\ \A h \in loader'.fetches : h.id # f.id
       /\ \A i \in DOMAIN loader.calls :
            (loader.calls[i].fetch = f.id /\ loader.calls[i].json.state = "pending")
              => \/ /\ loader'.calls[i].json.state = "resolved"
                    /\ loader'.calls[i].json.value.is = "data"
                    /\ loader'.calls[i].json.value.fetch = f.id
                    /\ loader'.calls[i].json.value.shape \in { "ok", "badItem" }
                 \/ /\ loader'.calls[i].json.state = "rejected"
                    /\ f.attempt = 3
                    /\ f.waited = << 1000, 2000 >>
                    /\ loader'.calls[i].json.value.is = "error"
                    /\ loader'.calls[i].json.value.shape
                         \in { "invalid", "error", "status", "syntax" }

C31_Attempts ==
  \A f \in loader.fetches :
    loader.kind = "part_001"
      => /\ f.attempt \in 1..3
         /\ f.waited = CASE f.attempt = 1 -> << >>
                         [] f.attempt = 2 -> << 1000 >>
                         [] OTHER -> << 1000, 2000 >>

\* C31: every step of a part_001 request is a retry after the delay or its
\* end as the claim has it, a request is at attempt 1..3 with the waits
\* 1000 ms and 2000 ms behind it, and every call ends up settled.
C31_RetriesThenRejects ==
  /\ [][C31_Step]_vars
  /\ []C31_Attempts
  /\ \A i \in 1..MaxCalls :
       (loader.kind = "part_001" /\ Len(loader.calls) >= i)
         ~> (Len(loader.calls) >= i /\ loader.calls[i].json.state # "pending")

\* One call was rejected with the error of its third attempt while another
\* request is at its third attempt after both delays
C31_Witness ==
  /\ loader.kind = "part_001"
  /\ \E i \in DOMAIN loader.calls :
       /\ loader.calls[i].json.state = "rejected"
       /\ loader.calls[i].json.value.shape = "status"
  /\ \E f \in loader.fetches : f.attempt = 3 /\ f.waited = << 1000, 2000 >>

(***************************************************************************)
(* SimpleFiltersComponent (animations.js): data, currentFilter and         *)
(* filteredData; loading is TRUE while loadData is suspended at            *)
(* await this.dataLoader()                                                 *)
(***************************************************************************)

\* Items a SimpleFiltersComponent may hold
MaxItems == 3

\* The records given to a component, told apart by category
SfcItems ==
  { [id |-> 1, category |-> "web"], [id |-> 2, category |-> "print"] }

\* Arrays of records handed to the component
SfcArrays ==
  { << >> } \cup { << i >> : i \in SfcItems }
    \cup { << i, j >> : i \in SfcItems, j \in SfcItems }

\* constructor and the synchronous part of init -> loadData: with a
\* dataLoader function the load is suspended at its await, otherwise data
\* and filteredData are the fallbackData
SfcNew(hasLoader, fallbackData) ==
  [ class         |-> "SimpleFiltersComponent",
    data          |-> IF hasLoader THEN << >> ELSE fallbackData,
    currentFilter |-> "all",
    filteredData  |-> IF hasLoader THEN << >> ELSE fallbackData,
    fallbackData  |-> fallbackData,
    loading       |-> hasLoader ]

\* applyFilter, with matchesFilter (item.category === filterValue)
SfcApplyFilter(s) ==
  [s EXCEPT !.filteredData =
     IF s.currentFilter = "all" THEN s.data
     ELSE SelectSeq(s.data, LAMBDA item : item.category = s.currentFilter)]

\* loadData after its await: the loader's array, or the fallbackData in the
\* catch, and in both cases filteredData = [...this.data]
SfcLoaded(s, outcome) ==
  [s EXCEPT !.data = IF outcome.state = "resolved" THEN outcome.value
                     ELSE s.fallbackData,
            !.filteredData = IF outcome.state = "resolved" THEN outcome.value
                             ELSE s.fallbackData,
            !.loading = FALSE]

\* setFilter
SfcSetFilter(s, filterValue) ==
  SfcApplyFilter([s EXCEPT !.currentFilter = filterValue])

\* addData: an array is spread, anything else is pushed
SfcAddData(s, isArray, newItems) ==
  SfcApplyFilter([s EXCEPT !.data = IF isArray THEN @ \o newItems
                                    ELSE Append(@, newItems[1])])

\* updateData: an array replaces data, anything else empties it
SfcUpdateData(s, isArray, newData) ==
  SfcApplyFilter([s EXCEPT !.data = IF isArray THEN newData ELSE << >>])

\* the dataLoader's promise settles and loadData goes on
SimpleLoadDataResumes ==
  /\ ui.class = "SimpleFiltersComponent"
  /\ ui.loading
  /\ \E outcome \in { [state |-> "resolved", value |-> a] : a \in SfcArrays }
                      \cup { [state |-> "rejected", value |-> << >>] } :
       ui' = SfcLoaded(ui, outcome)
  /\ UNCHANGED << controller, fsVars, fmVars, probe, loader >>

\* setFilter(filterValue) from a filter button or the page
SimpleSetFilter ==
  /\ ui.class = "SimpleFiltersComponent"
  /\ \E filterValue \in { "all", "web", "print" } :
       ui' = SfcSetFilter(ui, filterValue)
  /\ UNCHANGED << controller, fsVars, fmVars, probe, loader >>

\* clearFilter
SimpleClearFilter ==
  /\ ui.class = "SimpleFiltersComponent"
  /\ ui' = SfcSetFilter(ui, "all")
  /\ UNCHANGED << controller, fsVars, fmVars, probe, loader >>

\* addData(newItems)
SimpleAddData ==
  /\ ui.class = "SimpleFiltersComponent"
  /\ \E isArray \in BOOLEAN, newItems \in SfcArrays :
       /\ isArray \/ Len(newItems) = 1
       /\ Len(ui.data) + Len(newItems) <= MaxItems
       /\ ui' = SfcAddData(ui, isArray, newItems)
  /\ UNCHANGED << controller, fsVars, fmVars, probe, loader >>

\* updateData(newData)
SimpleUpdateData ==
  /\ ui.class = "SimpleFiltersComponent"
  /\ \E isArray \in BOOLEAN, newData \in SfcArrays :
       ui' = SfcUpdateData(ui, isArray, newData)
  /\ UNCHANGED << controller, fsVars, fmVars, probe, loader >>

(***************************************************************************)
(* AnimationsManager (animations.js): one GIF under its intersection       *)
(* observer.  src is "original" or "static", playing is the class          *)
(* gif-playing, preloads counts the Images pauseGif has created whose      *)
(* onload / onerror is still to come, last is the last intersection event  *)
(***************************************************************************)

\* Static-image preloads of one GIF in flight at a time
MaxPreloads == 2

\* setupGifControls: the GIF shows its original source
AnimsNew ==
  [ class |-> "AnimationsManager", src |-> "original", playing |-> FALSE,
    preloads |-> 0, last |-> "none" ]

\* playGif: only a GIF that is not showing its original source is touched
AnimsPlayGif(g) ==
  IF g.src # "original"
    THEN [g EXCEPT !.src = "original", !.playing = TRUE]
    ELSE g

\* pauseGif up to img.src = staticSrc: a preload starts unless the GIF
\* already shows the static image
AnimsPauseGif(g) ==
  IF g.src # "static" THEN [g EXCEPT !.preloads = @ + 1] ELSE g

\* img.onload (the static image replaces the GIF) or img.onerror (the GIF
\* is kept) of one preload
AnimsPreloadEnded(g, loaded) ==
  IF loaded
    THEN [g EXCEPT !.preloads = @ - 1, !.src = "static", !.playing = FALSE]
    ELSE [g EXCEPT !.preloads = @ - 1]

\* The observer's callback for one entry
GifIntersects ==
  /\ ui.class = "AnimationsManager"
  /\ \E isIntersecting \in BOOLEAN :
       /\ ~isIntersecting /\ ui.src # "static" => ui.preloads < MaxPreloads
       /\ ui' = [ (IF isIntersecting THEN AnimsPlayGif(ui) ELSE AnimsPauseGif(ui))
                    EXCEPT !.last = IF isIntersecting THEN "entering" ELSE "leaving" ]
  /\ UNCHANGED << controller, fsVars, fmVars, probe, loader >>

\* A preload of the static image ends
GifPreloadEnds ==
  /\ ui.class = "AnimationsManager"
  /\ ui.preloads > 0
  /\ \E loaded \in BOOLEAN : ui' = AnimsPreloadEnded(ui, loaded)
  /\ UNCHANGED << controller, fsVars, fmVars, probe, loader >>

(***************************************************************************)
(* AnimationManager (part_002): one scroll-triggered GIF.  animation is    *)
(* the isPlaying flag of its scrollAnimations record, isPlaying that of    *)
(* its gifControllers record, playing the class gif-playing; geometry is   *)
(* where the element is: "out" of the window, "partial" (visible, at most  *)
(* half of it) or "in" (visible beyond the threshold 0.5)                  *)
(***************************************************************************)

\* setupScrollAnimations and setupGifController
AnimNew(pauseOnHover) ==
  [ class |-> "AnimationManager", animation |-> FALSE, isPlaying |-> FALSE,
    playing |-> FALSE, geometry |-> "out", hidden |-> FALSE,
    pauseOnHover |-> pauseOnHover ]

\* playGif
AnimPlayGif(g) ==
  IF ~g.isPlaying THEN [g EXCEPT !.isPlaying = TRUE, !.playing = TRUE] ELSE g

\* pauseGif
AnimPauseGif(g) ==
  IF g.isPlaying THEN [g EXCEPT !.isPlaying = FALSE, !.playing = FALSE] ELSE g

\* updateScrollAnimations for the element
AnimUpdateScrollAnimations(g) ==
  IF g.geometry = "in"
    THEN IF ~g.animation THEN [AnimPlayGif(g) EXCEPT !.animation = TRUE] ELSE g
    ELSE IF g.animation THEN [AnimPauseGif(g) EXCEPT !.animation = FALSE] ELSE g

\* A scroll moves the element and the animation frame runs
\* updateScrollAnimations
ScrollUpdate ==
  /\ ui.class = "AnimationManager"
  /\ \E geometry \in { "out", "partial", "in" } :
       ui' = AnimUpdateScrollAnimations([ui EXCEPT !.geometry = geometry])
  /\ UNCHANGED << controller, fsVars, fmVars, probe, loader >>

\* mouseenter on the GIF
MouseEnter ==
  /\ ui.class = "AnimationManager"
  /\ ui' = AnimPlayGif(ui)
  /\ UNCHANGED << controller, fsVars, fmVars, probe, loader >>

\* mouseleave on the GIF
MouseLeave ==
  /\ ui.class = "AnimationManager"
  /\ ui' = IF ui.pauseOnHover THEN AnimPauseGif(ui) ELSE ui
  /\ UNCHANGED << controller, fsVars, fmVars, probe, loader >>

\* A click on the GIF's [data-gif-toggle] control: toggleGif
ToggleClick ==
  /\ ui.class = "AnimationManager"
  /\ ui' = IF ui.isPlaying THEN AnimPauseGif(ui) ELSE AnimPlayGif(ui)
  /\ UNCHANGED << controller, fsVars, fmVars, probe, loader >>

\* visibilitychange: pauseAllAnimations when the page is hidden,
\* resumeVisibleAnimations (any part of the element in the window) when
\* it is shown
VisibilityChange ==
  /\ ui.class = "AnimationManager"
  /\ ui' = IF ~ui.hidden
             THEN [AnimPauseGif(ui) EXCEPT !.hidden = TRUE]
             ELSE [ (IF ui.geometry # "out" THEN AnimPlayGif(ui) ELSE ui)
                      EXCEPT !.hidden = FALSE ]
  /\ UNCHANGED << controller, fsVars, fmVars, probe, loader >>

(***************************************************************************)
(* App (main.js): init.  pc is where init stands, indicators the number of *)
(* #loading-indicator elements in the page                                 *)
(***************************************************************************)

\* new App(): the constructor runs init up to await this.loadPageData(),
\* after showLoadingIndicator and initBaseModules
AppNew ==
  [ class |-> "App", pc |-> "loadPageData", indicators |-> 1,
    isInitialized |-> FALSE ]

\* init from one await to the next, or to its end: after loadPageData
\* (which catches its own errors) initPageModules is called and awaited;
\* after it initGlobalHandlers, hideLoadingIndicator and isInitialized =
\* true.  throws names the step that throws, if one does: the catch of init
\* logs the error and calls showErrorMessage, which logs it again
AppInitGoesOn(a, throws) ==
  IF a.pc = "loadPageData" THEN [a EXCEPT !.pc = "initPageModules"]
  ELSE IF throws # "none" THEN [a EXCEPT !.pc = "failed"]
  ELSE [a EXCEPT !.pc = "done",
                 !.indicators = IF @ > 0 THEN @ - 1 ELSE @,
                 !.isInitialized = TRUE]

\* One step of App.init: the awaited promise settles and init goes on
InitStep ==
  /\ ui.class = "App"
  /\ ui.pc \notin { "done", "failed" }
  /\ \E throws \in { "none", "initPageModules", "initGlobalHandlers" } :
       ui' = AppInitGoesOn(ui, throws)
  /\ UNCHANGED << controller, fsVars, fmVars, probe, loader >>

(***************************************************************************)
(* TypeTester (typetester.js): settings.fontSize, a number or NaN          *)
(***************************************************************************)

\* e.target.value of the size slider (a range input, min 12, max 120)
SliderValues ==
  { << "1", "2" >>, << "4", "9" >>, << "1", "2", "0" >> }

\* e.target.value of the size number input: what was typed, the empty
\* string when the field is empty or holds no number
NumberValues ==
  { << >>, << "8" >>, << "1", "3" >>, << "1", "2", "1" >>, << "5", "0", "0" >> }

\* constructor and resetSettings: settings.fontSize
TtNew == [class |-> "TypeTester", fontSize |-> VNum(48)]

\* updateFontSize: Math.max(12, Math.min(120, size)), NaN when size is NaN
TtUpdateFontSize(t, size) ==
  [t EXCEPT !.fontSize =
     IF size.t # "number" THEN VNaN
     ELSE IF size.n > 120 THEN VNum(120)
     ELSE IF size.n < 12 THEN VNum(12)
     ELSE size]

\* this.settings.fontSize + delta
TtFontSizePlus(t, delta) ==
  IF t.fontSize.t = "number" THEN VNum(t.fontSize.n + delta) ELSE VNaN

\* input on the size slider
SizeSliderInput ==
  /\ ui.class = "TypeTester"
  /\ \E value \in SliderValues : ui' = TtUpdateFontSize(ui, ParseInt(VStr(value)))
  /\ UNCHANGED << controller, fsVars, fmVars, probe, loader >>

\* input on the size number field
SizeNumberInput ==
  /\ ui.class = "TypeTester"
  /\ \E value \in NumberValues : ui' = TtUpdateFontSize(ui, ParseInt(VStr(value)))
  /\ UNCHANGED << controller, fsVars, fmVars, probe, loader >>

\* Ctrl/Cmd with = or + (delta 2), with - (delta -2)
SizeShortcut ==
  /\ ui.class = "TypeTester"
  /\ \E delta \in { 2, -2 } : ui' = TtUpdateFontSize(ui, TtFontSizePlus(ui, delta))
  /\ UNCHANGED << controller, fsVars, fmVars, probe, loader >>

\* resetSettings (the Reset button, Ctrl/Cmd R)
ResetSettings ==
  /\ ui.class = "TypeTester"
  /\ ui' = TtNew
  /\ UNCHANGED << controller, fsVars, fmVars, probe, loader >>

(***************************************************************************)
(* TypetesterFontLoader (filters.js): loadedFonts, the ids whose face is   *)
(* in document.fonts (added), the number of FontFace loads begun per id    *)
(* (loads), and the loadFont calls made: the font's id and "pending",      *)
(* "true" or "false"                                                       *)
(***************************************************************************)

\* loadFont calls made of one loader
MaxLoads == 3

\* fontData objects: with and without fontFiles.demo
TflFonts ==
  { [id |-> "serif", demo |-> TRUE], [id |-> "sans", demo |-> TRUE],
    [id |-> "mono", demo |-> FALSE] }

\* constructor
TflNew ==
  [ class |-> "TypetesterFontLoader", loadedFonts |-> {}, added |-> {},
    loads |-> [id \in { f.id : f \in TflFonts } |-> 0], calls |-> << >> ]

\* A loader that records the font whether or not its face loaded;
\* C37_LoadedMeansFaceAdded tells it from TflSettled
TflSettledAnyway(l, i, outcome) ==
  [l EXCEPT !.loadedFonts = @ \cup { l.calls[i].id },
            !.calls[i].result = "true"]

\* loadFont up to await fontFace.load(): true for a recorded id, false
\* without a demo file, otherwise a FontFace starts to load
TflLoadFont(l, fontData) ==
  IF fontData.id \in l.loadedFonts
    THEN [l EXCEPT !.calls = Append(@, [id |-> fontData.id, result |-> "true"])]
  ELSE IF fontData.demo
    THEN [l EXCEPT !.loads[fontData.id] = @ + 1,
                   !.calls = Append(@, [id |-> fontData.id, result |-> "pending"])]
  ELSE [l EXCEPT !.calls = Append(@, [id |-> fontData.id, result |-> "false"])]

\* loadFont after its await, for the call i.  outcome: "loaded" (the face
\* is added and the id recorded), "loadFails" (fontFace.load rejects),
\* "addFails" (document.fonts.add throws): the catch returns false
TflSettled(l, i, outcome) ==
  IF outcome = "loaded"
    THEN [l EXCEPT !.added = @ \cup { l.calls[i].id },
                   !.loadedFonts = @ \cup { l.calls[i].id },
                   !.calls[i].result = "true"]
    ELSE [l EXCEPT !.calls[i].result = "false"]

\* loadFont(fontData), from the page or preloadFonts
LoadFont ==
  /\ ui.class = "TypetesterFontLoader"
  /\ Len(ui.calls) < MaxLoads
  /\ \E fontData \in TflFonts : ui' = TflLoadFont(ui, fontData)
  /\ UNCHANGED << controller, fsVars, fmVars, probe, loader >>

\* The load of a face ends and its loadFont goes on
FaceSettles ==
  /\ ui.class = "TypetesterFontLoader"
  /\ \E i \in DOMAIN ui.calls :
       /\ ui.calls[i].result = "pending"
       /\ \E outcome \in { "loaded", "loadFails", "addFails" } :
            ui' = TflSettled(ui, i, outcome)
  /\ UNCHANGED << controller, fsVars, fmVars, probe, loader >>

(***************************************************************************)
(* A page with one of these components                                     *)
(***************************************************************************)

UiInit ==
  /\ controller = "Component"
  /\ InitFs(FsNew("FilterSystem", << >>))
  /\ InitFm(NoPage)
  /\ probe = NoProbe
  /\ loader = DlNew("none")
  /\ ui \in { SfcNew(hasLoader, fallbackData) :
                hasLoader \in BOOLEAN, fallbackData \in SfcArrays }
            \cup { AnimsNew, AppNew, TtNew, TflNew }
            \cup { AnimNew(pauseOnHover) : pauseOnHover \in BOOLEAN }

UiNext ==
  \/ SimpleLoadDataResumes
  \/ SimpleSetFilter
  \/ SimpleClearFilter
  \/ SimpleAddData
  \/ SimpleUpdateData
  \/ GifIntersects
  \/ GifPreloadEnds
  \/ ScrollUpdate
  \/ MouseEnter
  \/ MouseLeave
  \/ ToggleClick
  \/ VisibilityChange
  \/ InitStep
  \/ SizeSliderInput
  \/ SizeNumberInput
  \/ SizeShortcut
  \/ ResetSettings
  \/ LoadFont
  \/ FaceSettles

UiSpec == UiInit /\ [][UiNext]_vars

(***************************************************************************)
(* The page's other components: claims                                     *)
(***************************************************************************)

\* C32: filteredData is always the items of data that match currentFilter,
\* all of data when currentFilter is 'all'.
C32_FilteredIsDataByFilter ==
  ui.class = "SimpleFiltersComponent"
    => ui.filteredData
         = IF ui.currentFilter = "all" THEN ui.data
           ELSE SelectSeq(ui.data, LAMBDA item : item.category = ui.currentFilter)

\* C33: with no preload in flight, a GIF whose last intersection event was
\* 'entering' shows its original source (the class gif-playing left aside).
C33_EnteredGifShowsOriginal ==
  (ui.class = "AnimationsManager" /\ ui.last = "entering" /\ ui.preloads = 0)
    => ui.src = "original"

\* C34: the isPlaying flag of the scroll-animation record equals the
\* isPlaying flag of the GIF's controller.
C34_RecordAgreesWithController ==
  ui.class = "AnimationManager" => ui.animation = ui.isPlaying

\* C35: when init has ended, by completing or by a step that threw, no
\* loading indicator is left in the page.
C35_InitEndsWithoutIndicator ==
  (ui.class = "App" /\ ui.pc \in { "done", "failed" }) => ui.indicators = 0

\* C36: settings.fontSize is a number within [12, 120].
C36_FontSizeInRange ==
  ui.class = "TypeTester"
    => /\ ui.fontSize.t = "number"
       /\ ui.fontSize.n >= 12
       /\ ui.fontSize.n <= 120

\* C37: every id in loadedFonts is of a face that was loaded and added; a
\* loadFont for a font without a demo file, and one whose load or add
\* fails, returns false and leaves loadedFonts as it was; a loadFont for an
\* id in loadedFonts returns true and begins no load.
C37_LoadedMeansFaceAdded ==
  ui.class = "TypetesterFontLoader"
    => /\ ui.loadedFonts \subseteq ui.added
       /\ \A fontData \in TflFonts :
            \E after \in { TflLoadFont(ui, fontData) } :
              /\ fontData.id \in ui.loadedFonts
                   => /\ after.calls[Len(after.calls)].result = "true"
                      /\ after.loads = ui.loads
                      /\ after.loadedFonts = ui.loadedFonts
              /\ (fontData.id \notin ui.loadedFonts /\ ~fontData.demo)
                   => /\ after.calls[Len(after.calls)].result = "false"
                      /\ after.loads = ui.loads
                      /\ after.loadedFonts = ui.loadedFonts
       /\ \A i \in DOMAIN ui.calls :
            ui.calls[i].result = "pending"
              => \A outcome \in { "loadFails", "addFails" } :
                   \E after \in { TflSettled(ui, i, outcome) } :
                     /\ after.calls[i].result = "false"
                     /\ after.loadedFonts = ui.loadedFonts
                     /\ after.added = ui.added

\* A font was loaded and asked for again (true, one load begun), and a
\* loadFont returned false
C37_Witness ==
  /\ ui.class = "TypetesterFontLoader"
  /\ \E i, j \in DOMAIN ui.calls :
       /\ i < j
       /\ ui.calls[i].id = ui.calls[j].id
       /\ ui.calls[j].result = "true"
       /\ ui.loads[ui.calls[i].id] = 1
       /\ ui.calls[i].id \in ui.loadedFonts
  /\ \E k \in DOMAIN ui.calls : ui.calls[k].result = "false"

=============================================================================
